---- MODULE Spec2Model ----
(***************************************************************************)
(* Verification model of dl-nzb: the pipelined NNTP client                 *)
(* (src/nntp/connection.rs), the per-file / per-NZB downloader             *)
(* (src/download/downloader.rs) and the post-processing orchestrator       *)
(* (src/processing/post_processor.rs).                                     *)
(*                                                                         *)
(* The specifications share the module's variables:                        *)
(*   SpecPipe  one call of download_segments_pipelined on one connection,  *)
(*             against a server whose reply lines may arrive in time,      *)
(*             late, or not at all;                                        *)
(*   SpecDl    download_nzb: files, batches, the connection pool and the   *)
(*             progress meter, under every interleaving of the batches;    *)
(*   SpecFile  the same for an NZB of one file, whose segment numbering    *)
(*             may be malformed;                                           *)
(*   SpecPP    process_downloads: PAR2, integrity gate, extraction,        *)
(*             deobfuscation;                                              *)
(*   SpecWait  the connection acquisition loop of one batch;               *)
(*   SpecPar2  concurrent calls of Par2Repairer::repair_with_progress;     *)
(*   SpecConn  one operation of a connection (connect, a segment fetch,    *)
(*             the health check, close) against a server that may fall     *)
(*             silent;                                                     *)
(*   SpecDrive the bounded-concurrency driver of the file futures;         *)
(*   SpecExtract one call of extract_archive: the blocking worker, its     *)
(*             channel and the driver loop;                                *)
(*   SpecDelete the loop of extract_archives with delete_rar_parts;        *)
(*   SpecCount the completion counter of the file futures;                 *)
(*   SpecHandle the batch futures of a file around their pool handle;      *)
(*   SpecRar, SpecYenc, SpecAuth, SpecDeobf, SpecEntry, SpecSize, SpecObf, *)
(*   SpecRename, SpecMovie                                                 *)
(*             one application of a function (the extractor's path         *)
(*             filter, the yEnc decoder, authenticate, deobfuscate_files,  *)
(*             is_extractable_archive, the size test of the rename,        *)
(*             is_probably_obfuscated, the extension repair, and the       *)
(*             DVD/Bluray test) to each input of a bounded set.            *)
(* A specification leaves the variables of the other parts at rest.        *)
(***************************************************************************)
EXTENDS Integers, Sequences, FiniteSets, TLC

(***************************************************************************)
(* Bounds of the model.                                                    *)
(***************************************************************************)
\* longest request list handed to download_segments_pipelined in SpecPipe
MaxBatch == 2
\* acquisition attempts after which connection_wait_timeout has elapsed
MaxAttempts == 2
\* most DownloadResults handed to process_downloads in SpecPP
MaxResults == 2

(***************************************************************************)
(* Option<T>: None, or Some(v).                                            *)
(***************************************************************************)
None == <<"None">>
Some(v) == <<"Some", v>>
IsSome(o) == o /= None
Unwrap(o) == o[2]

\* the empty byte string produced by decoding a body without yEnc data
EmptyBytes == 0

Range(s) == {s[i] : i \in 1..Len(s)}

RECURSIVE SumTo(_, _)
SumTo(s, n) == IF n = 0 THEN 0 ELSE s[n] + SumTo(s, n - 1)

SumSeq(s) == SumTo(s, Len(s))

RECURSIVE Flatten(_)
Flatten(ss) == IF ss = <<>> THEN <<>> ELSE Head(ss) \o Flatten(Tail(ss))

(***************************************************************************)
(* State of the downloader (Part 2) and of the post-processor (Part 3).    *)
(***************************************************************************)
VARIABLES
    nzb,            \* the NzbFile list: per file its segment list
    cfg,            \* Config: connections, pipeline_size, force_redownload
    disk,           \* per file: the output path's state on disk
    disk0,          \* per file: the output path's state before the run
    fstate,         \* per file: "queued", "running", "done", "error"
    bstate,         \* per file, per batch: "queued", "get", "conv", "done"
    attempt,        \* per file, per batch: failed acquisition attempts
    bconn,          \* per file, per batch: pool connection held, else 0
    boutcome,       \* per file, per batch: how the batch ended
    batch_results,  \* per file: the batches' outputs, in completion order
    dresult,        \* per file: Some(DownloadResult) once it has returned
    idle,           \* the pool's idle connections, most recent last
    cstate,         \* per pool slot: "closed", "idle", "held"
    poisoned,       \* per pool slot: a batch saw a desync on it
    position,       \* the progress meter's byte position
    npc,            \* download_nzb: "run", "done"
    acquired        \* per file: pool handles its batches obtained

dlVars == <<nzb, cfg, disk, disk0, fstate, bstate, attempt, bconn, boutcome,
            batch_results, dresult, idle, cstate, poisoned, position, npc,
            acquired>>

VARIABLES
    ppcfg,          \* PostProcessingConfig
    dlres,          \* the DownloadResults handed to process_downloads
    par2_status,    \* what the PAR2 phase returned
    phase,          \* position inside process_downloads
    phases          \* the phases started so far, in order

ppVars == <<ppcfg, dlres, par2_status, phase, phases>>

\* the downloader at rest (the other specifications)
DlOff ==
    /\ nzb = <<>>
    /\ cfg = <<>>
    /\ disk = <<>>
    /\ disk0 = <<>>
    /\ fstate = <<>>
    /\ bstate = <<>>
    /\ attempt = <<>>
    /\ bconn = <<>>
    /\ boutcome = <<>>
    /\ batch_results = <<>>
    /\ dresult = <<>>
    /\ idle = <<>>
    /\ cstate = <<>>
    /\ poisoned = <<>>
    /\ position = 0
    /\ npc = "off"
    /\ acquired = <<>>

\* the post-processor at rest (the other specifications)
PPOff ==
    /\ ppcfg = <<>>
    /\ dlres = <<>>
    /\ par2_status = "none"
    /\ phase = "off"
    /\ phases = <<>>

(***************************************************************************)
(* State of the acquisition loop of one batch (Part 4), of the functions   *)
(* applied to one input (Part 5) and of the PAR2 bridge (Part 6).          *)
(***************************************************************************)
VARIABLES
    w_pc,           \* acquisition loop: "check", "sleep", "get", "have", "gaveup"
    w_attempt,      \* `attempt`: failed acquisition attempts so far
    w_elapsed,      \* start.elapsed(), in milliseconds
    w_max_wait,     \* max_wait, in milliseconds
    w_hidden,       \* progress.is_hidden()
    w_notices,      \* "Waiting for connection" notices printed so far
    w_hung          \* every attempt so far ended by its per-attempt timeout

waitVars == <<w_pc, w_attempt, w_elapsed, w_max_wait, w_hidden, w_notices, w_hung>>

VARIABLES
    fn_pc,          \* "in" before the function is applied, "out" after
    fn_in,          \* the input it is applied to
    fn_out          \* what it returned

fnVars == <<fn_pc, fn_in, fn_out>>

VARIABLES
    PROGRESS_CALLBACK,  \* the global slot: the caller whose closure it holds, or 0
    t_pc,           \* per caller: position inside repair_with_progress
    t_cb,           \* per caller: whether it passed a progress callback
    in_kernel,      \* the callers inside the PAR2 kernel
    delivered,      \* per caller: events of its kernel run its callback got
    misrouted,      \* an event of one caller's run reached another's callback
    dropped,        \* an event was raised while the slot did not hold a callback
    raised          \* per caller: events its kernel run has raised

par2Vars ==
    <<PROGRESS_CALLBACK, t_pc, t_cb, in_kernel, delivered, misrouted, dropped,
      raised>>

\* State of one operation on an NNTP connection against a server that may
\* fall silent (Part 7).
VARIABLES
    c_op,           \* the operation: connect, download_segment, is_healthy, close
    c_cfg,          \* connect: UsenetConfig.ssl; download_segment: group cached
    c_server,       \* the status lines the server sends before it falls silent
    c_rd,           \* number of lines of c_server read
    c_pc,           \* position inside the operation; "pending" = awaiting forever
    c_met,          \* a read of the operation found the server silent
    c_ret           \* "none" while running, then the value returned

connVars == <<c_op, c_cfg, c_server, c_rd, c_pc, c_met, c_ret>>

\* State of one call of RarExtractor::extract_archive: the blocking worker,
\* the bounded channel and the async driver loop (Part 8).
VARIABLES
    archive,          \* the entries read_header has yet to return
    xw_pc,            \* position of the worker; "off" before it is spawned
    extracted_files,  \* the worker's count of extracted entries
    chan,             \* the messages in the channel, oldest first
    sent,             \* history: every message the worker has sent
    xd_pc,            \* position of extract_archive / its driver loop
    current_monitor,  \* the driver watches the size of a large file
    polled,           \* the size of the watched file was displayed
    x_result,         \* the driver's `result`
    x_ret,            \* None while running, then Some of the value returned
    ended_by          \* history: what made the worker leave its loop

rarVars ==
    <<archive, xw_pc, extracted_files, chan, sent, xd_pc, current_monitor,
      polled, x_result, x_ret, ended_by>>

\* State of the completion counter of download_files_concurrent_with_config
\* (Part 2.2).
VARIABLES
    total_files,      \* files.len()
    pending,          \* the file futures whose download has not returned
    completed_count,  \* the AtomicUsize
    taken,            \* history: the values of `count`, in order
    messages          \* history: the counts set_message displayed, in order

cntVars == <<total_files, pending, completed_count, taken, messages>>

\* State of the batches of one file around their pool handle
\* (download_file_with_pool, Part 2.3).
VARIABLES
    h_pc,       \* per batch: position in the batch future
    h_attempt,  \* per batch: `attempt`
    h_conn,     \* per batch: `conn` holds a handle
    h_free,     \* the connections the pool can still hand out
    h_out       \* per batch: how the batch ended

hdlVars == <<h_pc, h_attempt, h_conn, h_free, h_out>>

extVars ==
    <<waitVars, fnVars, par2Vars, connVars, rarVars, cntVars, hdlVars>>

\* no batch futures (the other specifications)
HdlOff ==
    /\ h_pc = <<>>
    /\ h_attempt = <<>>
    /\ h_conn = <<>>
    /\ h_free = 0
    /\ h_out = <<>>

\* no extraction running (the other specifications)
RarOff ==
    /\ archive = <<>>
    /\ xw_pc = "off"
    /\ extracted_files = 0
    /\ chan = <<>>
    /\ sent = <<>>
    /\ xd_pc = "off"
    /\ current_monitor = FALSE
    /\ polled = FALSE
    /\ x_result = FALSE
    /\ x_ret = <<"None">>
    /\ ended_by = "nothing"

\* no completion counter (the other specifications)
CntOff ==
    /\ total_files = 0
    /\ pending = {}
    /\ completed_count = 0
    /\ taken = <<>>
    /\ messages = <<>>

\* the acquisition loop at rest (the other specifications)
WaitOff ==
    /\ w_pc = "off"
    /\ w_attempt = 0
    /\ w_elapsed = 0
    /\ w_max_wait = 0
    /\ w_hidden = FALSE
    /\ w_notices = 0
    /\ w_hung = TRUE

\* no function under application (the other specifications)
FnOff ==
    /\ fn_pc = "off"
    /\ fn_in = <<>>
    /\ fn_out = <<>>

\* the PAR2 bridge at rest (the other specifications)
Par2Off ==
    /\ PROGRESS_CALLBACK = 0
    /\ t_pc = <<>>
    /\ t_cb = <<>>
    /\ in_kernel = {}
    /\ delivered = <<>>
    /\ misrouted = FALSE
    /\ dropped = FALSE
    /\ raised = <<>>

\* no operation on a connection (the other specifications)
ConnOff ==
    /\ c_op = "off"
    /\ c_cfg = FALSE
    /\ c_server = <<>>
    /\ c_rd = 0
    /\ c_pc = "off"
    /\ c_met = FALSE
    /\ c_ret = "none"

ExtOff == WaitOff /\ FnOff /\ Par2Off /\ ConnOff /\ RarOff /\ CntOff /\ HdlOff

(***************************************************************************)
(* ---------------- Part 1: download_segments_pipelined ------------------ *)
(***************************************************************************)
VARIABLES
    requests,       \* &[SegmentRequest]: the batch
    wire,           \* the lines the server sends, in order
    rd,             \* number of lines of wire the reader has consumed
    ppc,            \* position inside download_segments_pipelined
    idx,            \* index of the request whose response is being read
    results,        \* Vec<(u32, Option<Bytes>)>
    ret,            \* "none" while running, then "Ok" or "Err"
    current_group,  \* AsyncNntpConnection::current_group
    acc,            \* lines gathered by the running read_article_body
    broken,         \* the transport returned an I/O error (sticky)
    eof,            \* the server closed the stream (sticky)
    failedAt,       \* first request whose read timed out or errored, else 0
    lateRead        \* a read was attempted for a request after failedAt

pipeVars == <<requests, wire, rd, ppc, idx, results, ret, current_group, acc,
              broken, eof, failedAt, lateRead>>

vars == <<pipeVars, dlVars, ppVars, extVars>>

\* the group every request of the batch names
TheGroup == "alt.binaries.g"
OtherGroup == "alt.binaries.h"

\* status codes a server answers BODY with: article follows, no such
\* article, no such article number, another code followed by a body,
\* another code without a body
BodyReplies == {"222", "430", "423", "500b", "500"}

StatusLine(code, r) == [k |-> "status", code |-> code, req |-> r]
DataLine(r) == [k |-> "data", code |-> "", req |-> r]
DotLine(r) == [k |-> "dot", code |-> "", req |-> r]

\* what the server puts on the wire for the reply `code` to request r
ReplyLines(code, r) ==
    CASE code = "222"  -> <<StatusLine("222", r), DataLine(r), DotLine(r)>>
      [] code = "500b" -> <<StatusLine("500", r), DataLine(r), DotLine(r)>>
      [] code = "500"  -> <<StatusLine("500", r)>>
      [] OTHER         -> <<StatusLine(code, r)>>

RECURSIVE ScriptLines(_, _)
ScriptLines(script, r) ==
    IF script = <<>> THEN <<>>
    ELSE ReplyLines(Head(script), r) \o ScriptLines(Tail(script), r + 1)

\* response.starts_with(code), for the line read as a response
StartsWith(line, code) == line.k = "status" /\ line.code = code

SeqsUpTo(S, n) == UNION {[1..m -> S] : m \in 0..n}

SegNumbers == {1, 2}

MkRequests(nums) ==
    [i \in 1..Len(nums) |->
        [message_id |-> i, group |-> TheGroup, segment_number |-> nums[i]]]

PipeInit ==
    /\ requests \in {MkRequests(nums) : nums \in SeqsUpTo(SegNumbers, MaxBatch)}
    /\ current_group \in {None, Some(TheGroup), Some(OtherGroup)}
    /\ wire = <<>>
    /\ rd = 0
    /\ ppc = "begin"
    /\ idx = 0
    /\ results = <<>>
    /\ ret = "none"
    /\ acc = <<>>
    /\ broken = FALSE
    /\ eof = FALSE
    /\ failedAt = 0
    /\ lateRead = FALSE

\* the pipelined client at rest (the other specifications)
PipeOff ==
    /\ requests = <<>>
    /\ current_group = None
    /\ wire = <<>>
    /\ rd = 0
    /\ ppc = "off"
    /\ idx = 0
    /\ results = <<>>
    /\ ret = "none"
    /\ acc = <<>>
    /\ broken = FALSE
    /\ eof = FALSE
    /\ failedAt = 0
    /\ lateRead = FALSE

\* What one read on the connection can do: deliver the next line, run into
\* its deadline, fail with an I/O error, or see the end of the stream.
ReadOutcomes ==
    IF broken THEN {"error"}
    ELSE IF eof THEN {"eof"}
    ELSE {"timeout", "error", "eof"} \cup (IF rd < Len(wire) THEN {"line"} ELSE {})

\* faulty variant: the failure branch forgets its push before `continue`
PushNone_forgotten(res, req) == res

\* results.push((req.segment_number, None))
PushNone(res, req) == Append(res, <<req.segment_number, None>>)

\* results.push((req.segment_number, Some(Bytes::from(decoded))))
PushSome(res, req, bytes) == Append(res, <<req.segment_number, Some(bytes)>>)

\* decode_yenc_simple over the gathered lines: everything before =ybegin is
\* skipped and =yend stops the decoding, so the output is the payload of
\* the first yEnc block among the lines, or nothing.
decode_yenc_simple(lines) ==
    LET blocks == SelectSeq(lines, LAMBDA l : l.k = "data")
    IN  IF blocks = <<>> THEN EmptyBytes ELSE blocks[1].req

\* `continue` / end of the loop body: on to the next request, or Ok(results)
NextRequest ==
    /\ idx' = idx + 1
    /\ acc' = <<>>
    /\ IF idx + 1 > Len(requests)
       THEN ppc' = "done" /\ ret' = "Ok"
       ELSE ppc' = "status" /\ ret' = ret

\* history: a read for request idx is being attempted
NoteRead == lateRead' = (lateRead \/ (failedAt /= 0 /\ idx > failedAt))

\* history: the read for request idx timed out or failed
NoteFailure == failedAt' = (IF failedAt = 0 THEN idx ELSE failedAt)

ReturnErr ==
    /\ ppc' = "done"
    /\ ret' = "Err"

\* lines 311-318: empty list, or GROUP when the cached group differs
PipelinedBegin ==
    /\ ppc = "begin"
    /\ IF requests = <<>>
       THEN /\ ppc' = "done" /\ ret' = "Ok"
            /\ UNCHANGED <<wire, broken>>
       ELSE IF current_group /= Some(requests[1].group)
       THEN \/ \E code \in {"211", "411"} :
                 /\ wire' = <<StatusLine(code, 0)>>
                 /\ ppc' = "group"
                 /\ UNCHANGED <<ret, broken>>
            \/ /\ broken' = TRUE
               /\ ReturnErr
               /\ UNCHANGED wire
       ELSE /\ ppc' = "send"
            /\ UNCHANGED <<wire, ret, broken>>
    /\ UNCHANGED <<requests, rd, idx, results, current_group, acc, eof,
                   failedAt, lateRead>>
    /\ UNCHANGED <<dlVars, ppVars, extVars>>

\* lines 319-328: the GROUP reply, read under a 10 s deadline
PipelinedGroupReply ==
    /\ ppc = "group"
    /\ \E o \in ReadOutcomes :
         CASE o = "line" ->
                /\ rd' = rd + 1
                /\ IF StartsWith(wire[rd + 1], "211")
                   THEN /\ current_group' = Some(requests[1].group)
                        /\ ppc' = "send"
                        /\ ret' = ret
                   ELSE ReturnErr /\ UNCHANGED current_group
                /\ UNCHANGED <<broken, eof>>
           [] o = "eof" ->
                /\ eof' = TRUE
                /\ ReturnErr
                /\ UNCHANGED <<rd, current_group, broken>>
           [] o = "error" ->
                /\ broken' = TRUE
                /\ ReturnErr
                /\ UNCHANGED <<rd, current_group, eof>>
           [] OTHER ->
                /\ ReturnErr
                /\ UNCHANGED <<rd, current_group, broken, eof>>
    /\ UNCHANGED <<requests, wire, idx, results, acc, failedAt, lateRead>>
    /\ UNCHANGED <<dlVars, ppVars, extVars>>

\* lines 331-340: every BODY command is written, then one flush
PipelinedSend ==
    /\ ppc = "send"
    /\ \/ \E script \in [1..Len(requests) -> BodyReplies] :
            /\ wire' = wire \o ScriptLines(script, 1)
            /\ ppc' = "status"
            /\ idx' = 1
            /\ UNCHANGED <<ret, broken>>
       \/ /\ broken' = TRUE
          /\ ReturnErr
          /\ UNCHANGED <<wire, idx>>
    /\ UNCHANGED <<requests, rd, results, current_group, acc, eof, failedAt,
                   lateRead>>
    /\ UNCHANGED <<dlVars, ppVars, extVars>>

\* faulty variant: only 430 is taken to come without a body
IsNoSuchArticle_only_430(response) == StartsWith(response, "430")

\* line 355: 430 = no such article, 423 = no such article number
IsNoSuchArticle(response) ==
    StartsWith(response, "430") \/ StartsWith(response, "423")

\* lines 342-366: the response line of request idx, under a 10 s deadline
PipelinedReadStatus ==
    /\ ppc = "status"
    /\ NoteRead
    /\ LET req == requests[idx] IN
       \E o \in ReadOutcomes :
         CASE o = "line" ->
                LET response == wire[rd + 1] IN
                /\ rd' = rd + 1
                /\ IF StartsWith(response, "222")
                   THEN /\ ppc' = "body"
                        /\ UNCHANGED <<results, idx, acc, ret>>
                   ELSE IF IsNoSuchArticle(response)
                   THEN /\ results' = PushNone(results, req)
                        /\ NextRequest
                   ELSE /\ ppc' = "drain"
                        /\ UNCHANGED <<results, idx, acc, ret>>
                /\ UNCHANGED <<broken, eof, failedAt>>
           [] o = "eof" ->
                \* read_line returns Ok(0): the response is the empty string
                /\ eof' = TRUE
                /\ ppc' = "drain"
                /\ UNCHANGED <<rd, results, idx, acc, ret, broken, failedAt>>
           [] o = "error" ->
                /\ broken' = TRUE
                /\ NoteFailure
                /\ results' = PushNone(results, req)
                /\ NextRequest
                /\ UNCHANGED <<rd, eof>>
           [] OTHER ->
                /\ NoteFailure
                /\ results' = PushNone(results, req)
                /\ NextRequest
                /\ UNCHANGED <<rd, broken, eof>>
    /\ UNCHANGED <<requests, wire, current_group>>
    /\ UNCHANGED <<dlVars, ppVars, extVars>>

\* what the loop does with the body read_article_body returned
BodyDone(lines) ==
    /\ results' = IF ppc = "body"
                  THEN PushSome(results, requests[idx], decode_yenc_simple(lines))
                  ELSE PushNone(results, requests[idx])
    /\ NextRequest

\* lines 189-227 under the 30 s deadline of line 362 (drain) or 370 (body):
\* one line of the dot-terminated body
PipelinedReadBodyLine ==
    /\ ppc \in {"body", "drain"}
    /\ NoteRead
    /\ \E o \in ReadOutcomes :
         CASE o = "line" ->
                LET line == wire[rd + 1] IN
                /\ rd' = rd + 1
                /\ IF line.k = "dot"
                   THEN BodyDone(acc)
                   ELSE /\ acc' = IF ppc = "body" THEN Append(acc, line) ELSE acc
                        /\ UNCHANGED <<results, idx, ppc, ret>>
                /\ UNCHANGED <<broken, eof, failedAt>>
           [] o = "eof" ->
                \* bytes_read == 0: break, Ok(body)
                /\ eof' = TRUE
                /\ BodyDone(acc)
                /\ UNCHANGED <<rd, broken, failedAt>>
           [] o = "error" ->
                /\ broken' = TRUE
                /\ NoteFailure
                /\ results' = PushNone(results, requests[idx])
                /\ NextRequest
                /\ UNCHANGED <<rd, eof>>
           [] OTHER ->
                /\ NoteFailure
                /\ results' = PushNone(results, requests[idx])
                /\ NextRequest
                /\ UNCHANGED <<rd, broken, eof>>
    /\ UNCHANGED <<requests, wire, current_group>>
    /\ UNCHANGED <<dlVars, ppVars, extVars>>
PipeNext ==
    \/ PipelinedBegin
    \/ PipelinedGroupReply
    \/ PipelinedSend
    \/ PipelinedReadStatus
    \/ PipelinedReadBodyLine

InitPipe == PipeInit /\ DlOff /\ PPOff /\ ExtOff

SpecPipe == InitPipe /\ [][PipeNext]_vars
(***************************************************************************)
(* Claims about download_segments_pipelined (SpecPipe).                    *)
(***************************************************************************)

\* C1: whenever download_segments_pipelined returns Ok, the result has
\* exactly one entry per request and the i-th entry carries the
\* segment_number of the i-th request, whatever the server did.
C1_PositionalResults ==
    ret = "Ok" =>
        /\ Len(results) = Len(requests)
        /\ \A i \in 1..Len(requests) :
               results[i][1] = requests[i].segment_number

\* C1 witness: a two-request batch returned Ok after a read deadline was
\* missed, with one failed and one fetched entry.
C1_Witness ==
    /\ ret = "Ok"
    /\ Len(requests) = 2
    /\ requests[1].segment_number /= requests[2].segment_number
    /\ failedAt /= 0
    /\ \E i, j \in 1..Len(results) :
           results[i][2] = None /\ IsSome(results[j][2])

\* C7: once a response-header or body read for request i has timed out or
\* hit a transport error, no further read is attempted for requests
\* i+1..n and every request from i onward is emitted as (number, None).
C7_StopsReadingAfterFailure ==
    failedAt /= 0 =>
        /\ ~lateRead
        /\ ret = "Ok" =>
               \A j \in failedAt..Len(requests) :
                   results[j] = <<requests[j].segment_number, None>>
\* C32: whenever download_segments_pipelined emits (n, Some(bytes)) for the
\* i-th request, bytes is the decoding of the body the server sent in reply
\* to the i-th BODY command (all of it, or what had arrived of it when the
\* stream ended), also after an earlier read of the batch ran into its
\* deadline; the data of one article is never attributed to another
\* request.
C32_NoMisattribution ==
    \A i \in 1..Len(results) :
        IsSome(results[i][2]) =>
            Unwrap(results[i][2]) \in {requests[i].message_id, EmptyBytes}

\* C33: a segment is reported as fetched (an entry with Some(bytes)) only
\* by the read that receives the body's terminating line, a single dot; a
\* body cut short by the end of the stream is never reported as data.
C33_DataOnlyAfterDot ==
    [][(Len(results') = Len(results) + 1
            /\ IsSome(results'[Len(results')][2]))
        => (rd' = rd + 1 /\ wire[rd'].k = "dot" /\ ~eof')]_vars

(***************************************************************************)
(* ---------------- Part 2: download_nzb --------------------------------- *)
(***************************************************************************)

\* The segment lists an NzbFile can carry, by their segment numbers: dense
\* in order, dense out of order, a duplicated number, a number beyond N, a
\* number 0.  The parser hands the numbers over as the NZB states them.
NumberLists == {<<1, 2, 3>>, <<2, 1>>, <<2, 2>>, <<1, 3>>, <<0, 1>>}

\* NzbFile f with these segment numbers; the declared size of the segment
\* listed p-th is p bytes, its message_id is <<f, p>>
MkFile(f, nums) ==
    [p \in 1..Len(nums) |->
        [number |-> nums[p], bytes |-> p, message_id |-> <<f, p>>]]

\* SpecFile: an NZB of one file, well-formed or not
OneFileNzbs == {<<MkFile(1, a)>> : a \in NumberLists}

\* SpecDl: NZBs of two well-formed files, the larger listed first or last
TwoFileNzbs ==
    {<<MkFile(1, <<1, 2>>), MkFile(2, <<1>>)>>,
     <<MkFile(1, <<1>>), MkFile(2, <<2, 1>>)>>}

\* largest usenet.connections and tuning.pipeline_size tried
MaxConnections == 2
MaxPipeline == 2

Files == 1..Len(nzb)

\* line 198 / lines 72-76
expected_size(file) == SumSeq([p \in 1..Len(file) |-> file[p].bytes])

total_bytes == SumSeq([f \in 1..Len(nzb) |-> expected_size(nzb[f])])

\* the states of an output path before the run
DiskAbsent == [exists |-> FALSE, len |-> 0, content |-> <<>>]
DiskComplete(file) == [exists |-> TRUE, len |-> expected_size(file), content |-> <<"old">>]
DiskOtherSize(file) == [exists |-> TRUE, len |-> expected_size(file) + 1, content |-> <<"old">>]

\* lines 231-240
segment_requests(file) ==
    [p \in 1..Len(file) |->
        [message_id |-> file[p].message_id, group |-> TheGroup,
         segment_number |-> file[p].number]]

\* slice::chunks
RECURSIVE Chunks(_, _)
Chunks(seq, n) ==
    IF seq = <<>> THEN <<>>
    ELSE IF Len(seq) <= n THEN <<seq>>
    ELSE <<SubSeq(seq, 1, n)>> \o Chunks(SubSeq(seq, n + 1, Len(seq)), n)

\* lines 247-250
batches(f) == Chunks(segment_requests(nzb[f]), cfg.pipeline_size)

Batches(f) == 1..Len(batches(f))

\* faulty variant: the pool is built one connection larger than configured
PoolMaxSize_plus_one == cfg.connections + 1

\* lines 45-47: NntpPoolBuilder::max_size(config.usenet.connections)
PoolMaxSize == cfg.connections

Slots == 1..(MaxConnections + 1)

\* faulty variant: the floor of two concurrent files is missing
max_concurrent_files_no_floor == cfg.connections \div 5

\* line 165
max_concurrent_files ==
    IF cfg.connections \div 5 > 2 THEN cfg.connections \div 5 ELSE 2

\* lines 138-139: stable sort by descending segment count
sorted_files ==
    CHOOSE s \in [1..Len(nzb) -> 1..Len(nzb)] :
        /\ \A i, j \in 1..Len(nzb) : i /= j => s[i] /= s[j]
        /\ \A i, j \in 1..Len(nzb) :
              i < j => \/ Len(nzb[s[i]]) > Len(nzb[s[j]])
                       \/ Len(nzb[s[i]]) = Len(nzb[s[j]]) /\ s[i] < s[j]

DlInit(nzbs) ==
    /\ nzb \in nzbs
    /\ cfg \in [connections : 1..MaxConnections, pipeline_size : 1..MaxPipeline,
               force_redownload : BOOLEAN]
    /\ disk \in [1..Len(nzb) -> [exists : BOOLEAN, len : 0..7, content : {<<>>, <<"old">>}]]
    /\ \A f \in 1..Len(nzb) :
          disk[f] \in {DiskAbsent, DiskComplete(nzb[f]), DiskOtherSize(nzb[f])}
    \* with force_redownload the length found is never looked at (line 197):
    \* one existing file stands for both
    /\ cfg.force_redownload =>
          \A f \in 1..Len(nzb) : disk[f] /= DiskOtherSize(nzb[f])
    /\ disk0 = disk
    /\ fstate = [f \in 1..Len(nzb) |-> "queued"]
    /\ bstate = [f \in 1..Len(nzb) |-> [b \in Batches(f) |-> "queued"]]
    /\ attempt = [f \in 1..Len(nzb) |-> [b \in Batches(f) |-> 0]]
    /\ bconn = [f \in 1..Len(nzb) |-> [b \in Batches(f) |-> 0]]
    /\ boutcome = [f \in 1..Len(nzb) |-> [b \in Batches(f) |-> "none"]]
    /\ batch_results = [f \in 1..Len(nzb) |-> <<>>]
    /\ dresult = [f \in 1..Len(nzb) |-> None]
    /\ idle = <<>>
    /\ cstate = [c \in Slots |-> "closed"]
    /\ poisoned = [c \in Slots |-> FALSE]
    /\ position = 0
    /\ npc = "run"
    /\ acquired = [f \in 1..Len(nzb) |-> 0]

\* faulty variant: the resume check never finds the file complete
ShouldSkip_never(f) == FALSE

\* lines 197-200: the resume check
ShouldSkip(f) ==
    /\ ~cfg.force_redownload
    /\ disk[f].exists
    /\ disk[f].len = expected_size(nzb[f])

\* lines 207-216
SkipResult(f) ==
    [size |-> expected_size(nzb[f]),
     segments_downloaded |-> Len(nzb[f]),
     segments_failed |-> 0,
     download_time |-> 0,
     failed_message_ids |-> <<>>]

InFlightFiles == {f \in Files : fstate[f] = "running"}

\* faulty variant: once a file has failed no further file is started
NextFile_until_error(f) ==
    /\ \A g \in 1..Len(nzb) : fstate[g] /= "error"
    /\ \E i \in 1..Len(nzb) :
          /\ sorted_files[i] = f
          /\ fstate[f] = "queued"
          /\ \A j \in 1..(i - 1) : fstate[sorted_files[j]] /= "queued"

\* the next future buffer_unordered polls: the first of sorted_files not yet
\* started
NextFile(f) ==
    \E i \in 1..Len(nzb) :
        /\ sorted_files[i] = f
        /\ fstate[f] = "queued"
        /\ \A j \in 1..(i - 1) : fstate[sorted_files[j]] /= "queued"

\* lines 190-225: one file is started: it is skipped, or its output is
\* created (truncated), or File::create fails
FileStart(f) ==
    /\ npc = "run"
    /\ NextFile(f)
    /\ Cardinality(InFlightFiles) < max_concurrent_files
    /\ IF ShouldSkip(f)
       THEN /\ fstate' = [fstate EXCEPT ![f] = "done"]
            /\ dresult' = [dresult EXCEPT ![f] = Some(SkipResult(f))]
            /\ disk' = disk
       ELSE \/ /\ disk' = [disk EXCEPT ![f] =
                            [exists |-> TRUE, len |-> 0, content |-> <<>>]]
               /\ fstate' = [fstate EXCEPT ![f] = "running"]
               /\ dresult' = dresult
            \/ /\ fstate' = [fstate EXCEPT ![f] = "error"]
               /\ UNCHANGED <<disk, dresult>>
    /\ UNCHANGED <<nzb, cfg, disk0, bstate, attempt, bconn, boutcome, batch_results,
                   idle, cstate, poisoned, position, npc, acquired>>
    /\ UNCHANGED <<pipeVars, ppVars, extVars>>

InFlightBatches(f) == {b \in Batches(f) : bstate[f][b] \in {"get", "conv"}}

\* lines 342-343: buffer_unordered(num_connections) starts the next batch
BatchStart(f, b) ==
    /\ fstate[f] = "running"
    /\ bstate[f][b] = "queued"
    /\ \A k \in 1..(b - 1) : bstate[f][k] /= "queued"
    /\ Cardinality(InFlightBatches(f)) < cfg.connections
    /\ bstate' = [bstate EXCEPT ![f][b] = "get"]
    /\ UNCHANGED <<nzb, cfg, disk0, disk, fstate, attempt, bconn, boutcome,
                   batch_results, dresult, idle, cstate, poisoned, position,
                   npc, acquired>>
    /\ UNCHANGED <<pipeVars, ppVars, extVars>>

OpenSlots == {c \in Slots : cstate[c] /= "closed"}

\* pool.get_connection(): the most recently returned idle connection, else a
\* new connection while the pool is below its size
PoolCanGive == idle /= <<>> \/ Cardinality(OpenSlots) < PoolMaxSize

PoolGives ==
    IF idle /= <<>> THEN idle[Len(idle)]
    ELSE CHOOSE c \in Slots :
            cstate[c] = "closed" /\ \A d \in Slots : cstate[d] = "closed" => c <= d

\* lines 282-286: get_connection returned a handle
BatchAcquire(f, b) ==
    /\ bstate[f][b] = "get"
    /\ PoolCanGive
    /\ LET c == PoolGives IN
       /\ cstate' = [cstate EXCEPT ![c] = "held"]
       /\ idle' = IF idle /= <<>> THEN SubSeq(idle, 1, Len(idle) - 1) ELSE idle
       /\ bconn' = [bconn EXCEPT ![f][b] = c]
    /\ bstate' = [bstate EXCEPT ![f][b] = "conv"]
    /\ acquired' = [acquired EXCEPT ![f] = @ + 1]
    /\ attempt' = [attempt EXCEPT ![f][b] = 0]
    /\ UNCHANGED <<nzb, cfg, disk0, disk, fstate, boutcome, batch_results,
                   dresult, poisoned, position, npc>>
    /\ UNCHANGED <<pipeVars, ppVars, extVars>>

\* faulty variant: a batch that gives up yields nothing
StarvedResults_nothing(batch) == <<>>

\* line 308
StarvedResults(batch) ==
    [i \in 1..Len(batch) |-> <<batch[i].segment_number, None>>]

\* lines 267-310: get_connection failed or ran into its 60 s deadline; the
\* loop goes round again unless connection_wait_timeout has elapsed, and
\* then the batch gives up
BatchAcquireFail(f, b) ==
    /\ bstate[f][b] = "get"
    /\ \E expired \in (IF attempt[f][b] + 1 >= MaxAttempts THEN {TRUE} ELSE BOOLEAN) :
          IF expired
          THEN /\ bstate' = [bstate EXCEPT ![f][b] = "done"]
               /\ boutcome' = [boutcome EXCEPT ![f][b] = "starved"]
               /\ attempt' = [attempt EXCEPT ![f][b] = 0]
               /\ batch_results' = [batch_results EXCEPT ![f] =
                                      Append(@, StarvedResults(batches(f)[b]))]
          ELSE /\ attempt' = [attempt EXCEPT ![f][b] = @ + 1]
               /\ UNCHANGED <<bstate, boutcome, batch_results>>
    /\ UNCHANGED <<nzb, cfg, disk0, disk, fstate, bconn, dresult, idle, cstate,
                   poisoned, position, npc, acquired>>
    /\ UNCHANGED <<pipeVars, ppVars, extVars>>


\* What download_segments_pipelined can return for a batch (Part 1 is its
\* step-by-step model): an error, or one entry per request in request order,
\* each carrying the article's bytes or None.  `desync` tells that a read
\* deadline was missed or the transport failed during the call.
PipelinedOutcomes(batch) ==
    {[ok |-> FALSE, results |-> <<>>, desync |-> d] : d \in BOOLEAN}
    \cup
    UNION {
        {[ok |-> TRUE,
          results |-> [i \in 1..Len(batch) |->
                          <<batch[i].segment_number,
                            IF got[i] THEN Some(batch[i].message_id) ELSE None>>],
          desync |-> d] :
            d \in IF \A i \in 1..Len(batch) : got[i] THEN {FALSE} ELSE BOOLEAN} :
        got \in [1..Len(batch) -> BOOLEAN]}

\* lines 317-321 / 328-332: progress.inc(segment_bytes[idx]) with
\* idx = number - 1, when that index exists
RECURSIVE ProgressFor(_, _)
ProgressFor(file, numbers) ==
    IF numbers = <<>> THEN 0
    ELSE (IF Head(numbers) >= 1 /\ Head(numbers) <= Len(file)
          THEN file[Head(numbers)].bytes ELSE 0)
         + ProgressFor(file, Tail(numbers))

\* lines 313-336: what the batch future yields: the results, or an empty
\* Vec when the pipelined call returned an error
BatchOutput(batch, out) == IF out.ok THEN out.results ELSE <<>>

\* lines 316-322 / 327-333: the numbers progress is advanced for
ProgressNumbers(batch, out) ==
    IF out.ok THEN [i \in 1..Len(out.results) |-> out.results[i][1]]
    ELSE [i \in 1..Len(batch) |-> batch[i].segment_number]

\* lines 312-337: the pipelined conversation of a batch; at the end of the
\* block the handle is dropped, which returns the connection to the pool
BatchConverse(f, b) ==
    /\ bstate[f][b] = "conv"
    /\ LET batch == batches(f)[b]
           c == bconn[f][b]
       IN  \E out \in PipelinedOutcomes(batch) :
            /\ position' = position + ProgressFor(nzb[f], ProgressNumbers(batch, out))
            /\ batch_results' = [batch_results EXCEPT ![f] =
                                    Append(@, BatchOutput(batch, out))]
            /\ boutcome' = [boutcome EXCEPT ![f][b] = IF out.ok THEN "ok" ELSE "err"]
            /\ poisoned' = [poisoned EXCEPT ![c] = @ \/ out.desync]
            /\ cstate' = [cstate EXCEPT ![c] = "idle"]
            /\ idle' = Append(idle, c)
    /\ bconn' = [bconn EXCEPT ![f][b] = 0]
    /\ bstate' = [bstate EXCEPT ![f][b] = "done"]
    /\ UNCHANGED <<nzb, cfg, disk0, disk, fstate, attempt, dresult, npc, acquired>>
    /\ UNCHANGED <<pipeVars, ppVars, extVars>>

\* the pool closes an idle connection it finds unhealthy
PoolEvict(c) ==
    /\ cstate[c] = "idle"
    /\ poisoned[c]
    /\ cstate' = [cstate EXCEPT ![c] = "closed"]
    /\ idle' = SelectSeq(idle, LAMBDA d : d /= c)
    /\ poisoned' = [poisoned EXCEPT ![c] = FALSE]
    /\ UNCHANGED <<nzb, cfg, disk0, disk, fstate, bstate, attempt, bconn, boutcome,
                   batch_results, dresult, position, npc, acquired>>
    /\ UNCHANGED <<pipeVars, ppVars, extVars>>

\* lines 352-358: the message_id of the first segment with that number, or
\* the empty string
MessageIdOf(file, number) ==
    IF \E p \in 1..Len(file) : file[p].number = number
    THEN file[CHOOSE p \in 1..Len(file) :
                 /\ file[p].number = number
                 /\ \A q \in 1..(p - 1) : file[q].number /= number].message_id
    ELSE <<>>

\* data.len(): the decoded article of the segment listed p-th is as long as
\* its declared size
DataLen(data) == data[2]

\* u32::saturating_sub(1)
SaturatingSub1(n) == IF n >= 1 THEN n - 1 ELSE 0

EmptyAssembly(file) ==
    [segment_data |-> [i \in 1..Len(file) |-> None],
     segments_downloaded |-> 0,
     segments_failed |-> 0,
     actual_size |-> 0,
     failed_message_ids |-> <<>>]

\* lines 377-401: one SegmentResult is taken into the assembly; the Vec
\* index `index` is slot index + 1 here
AssembleOne(file, a, r) ==
    IF IsSome(r[2])
    THEN LET index == SaturatingSub1(r[1]) IN
         [a EXCEPT !.segments_downloaded = @ + 1,
                   !.actual_size = @ + DataLen(Unwrap(r[2])),
                   !.segment_data =
                        IF index < Len(file)
                        THEN [@ EXCEPT ![index + 1] = r[2]]
                        ELSE @]
    ELSE [a EXCEPT !.segments_failed = @ + 1,
                   !.failed_message_ids = Append(@, MessageIdOf(file, r[1]))]

RECURSIVE AssembleFrom(_, _, _)
AssembleFrom(file, a, rs) ==
    IF rs = <<>> THEN a
    ELSE AssembleFrom(file, AssembleOne(file, a, Head(rs)), Tail(rs))

\* segment_data.into_iter().flatten()
RECURSIVE Filled(_)
Filled(sd) ==
    IF sd = <<>> THEN <<>>
    ELSE (IF IsSome(Head(sd)) THEN <<Unwrap(Head(sd))>> ELSE <<>>) \o Filled(Tail(sd))

\* the length in bytes of a sequence of decoded articles
RECURSIVE TotalLen(_)
TotalLen(w) == IF w = <<>> THEN 0 ELSE DataLen(Head(w)) + TotalLen(Tail(w))

\* faulty variant: the segments are written in the order their batches completed
Written_in_arrival_order(file, brs) ==
    Filled([i \in 1..Len(Flatten(brs)) |-> Flatten(brs)[i][2]])

\* lines 347-406: the bytes written to the output, from the batch outputs
\* in completion order: the filled slots in ascending slot order
Written(file, brs) ==
    Filled(AssembleFrom(file, EmptyAssembly(file), Flatten(brs)).segment_data)

\* lines 419-428
FileResult(file, brs) ==
    LET a == AssembleFrom(file, EmptyAssembly(file), Flatten(brs)) IN
    [size |-> a.actual_size,
     segments_downloaded |-> a.segments_downloaded,
     segments_failed |-> a.segments_failed,
     download_time |-> "elapsed",
     failed_message_ids |-> a.failed_message_ids]

\* lines 342-428: every batch has completed; the results are assembled and
\* written, or a write fails and the file ends in an error
FileFinish(f) ==
    /\ fstate[f] = "running"
    /\ \A b \in Batches(f) : bstate[f][b] = "done"
    /\ LET w == Written(nzb[f], batch_results[f]) IN
       \/ /\ disk' = [disk EXCEPT ![f] =
                        [exists |-> TRUE,
                         len |-> TotalLen(w),
                         content |-> w]]
          /\ dresult' = [dresult EXCEPT ![f] =
                          Some(FileResult(nzb[f], batch_results[f]))]
          /\ fstate' = [fstate EXCEPT ![f] = "done"]
       \/ /\ fstate' = [fstate EXCEPT ![f] = "error"]
          /\ UNCHANGED <<disk, dresult>>
    /\ UNCHANGED <<nzb, cfg, disk0, bstate, attempt, bconn, boutcome, batch_results,
                   idle, cstate, poisoned, position, npc, acquired>>
    /\ UNCHANGED <<pipeVars, ppVars, extVars>>

\* lines 84-92: every file future has completed; set_position(total_bytes)
NzbFinish ==
    /\ npc = "run"
    /\ \A f \in Files : fstate[f] \in {"done", "error"}
    /\ position' = total_bytes
    /\ npc' = "done"
    /\ UNCHANGED <<nzb, cfg, disk0, disk, fstate, bstate, attempt, bconn, boutcome,
                   batch_results, dresult, idle, cstate, poisoned, acquired>>
    /\ UNCHANGED <<pipeVars, ppVars, extVars>>

DlNext ==
    \/ \E f \in Files : FileStart(f)
    \/ \E f \in Files : \E b \in Batches(f) : BatchStart(f, b)
    \/ \E f \in Files : \E b \in Batches(f) : BatchAcquire(f, b)
    \/ \E f \in Files : \E b \in Batches(f) : BatchAcquireFail(f, b)
    \/ \E f \in Files : \E b \in Batches(f) : BatchConverse(f, b)
    \/ \E c \in Slots : PoolEvict(c)
    \/ \E f \in Files : FileFinish(f)
    \/ NzbFinish

InitDl == DlInit(TwoFileNzbs) /\ PipeOff /\ PPOff /\ ExtOff

SpecDl == InitDl /\ [][DlNext]_vars

InitFile == DlInit(OneFileNzbs) /\ PipeOff /\ PPOff /\ ExtOff

SpecFile == InitFile /\ [][DlNext]_vars

(***************************************************************************)
(* Claims about the downloader (SpecDl, SpecFile).                         *)
(***************************************************************************)

\* the file's segment numbers are exactly 1..N, each once
Dense(file) ==
    \A n \in 1..Len(file) :
        Cardinality({p \in 1..Len(file) : file[p].number = n}) = 1

\* the decoded article of the segment numbered n
ArticleOf(file, n) ==
    file[CHOOSE p \in 1..Len(file) : file[p].number = n].message_id

\* every batch of f ended with Ok and every entry carries bytes
AllFetched(f) ==
    /\ \A b \in Batches(f) : boutcome[f][b] = "ok"
    /\ \A i \in 1..Len(batch_results[f]) :
          \A j \in 1..Len(batch_results[f][i]) :
              IsSome(batch_results[f][i][j][2])

\* C2: for a file whose segment numbers are dense over 1..N, if every
\* segment fetch succeeds then, whatever the order in which the batches
\* completed, the output file holds the decoded segments in ascending
\* segment-number order.
C2_ReassemblyOrder ==
    \A f \in Files :
        (fstate[f] = "done" /\ Dense(nzb[f]) /\ AllFetched(f)) =>
            disk[f].content = [n \in 1..Len(nzb[f]) |-> ArticleOf(nzb[f], n)]

\* C2 witness: a dense three-segment file, one segment per batch, whose
\* second batch completed first, fully fetched and written.
C2_Witness ==
    /\ Len(nzb[1]) = 3
    /\ Dense(nzb[1])
    /\ cfg.pipeline_size = 1
    /\ fstate[1] = "done"
    /\ AllFetched(1)
    /\ batch_results[1][1][1][1] = 2

ConversingBatches ==
    UNION {{<<f, b>> : b \in {k \in Batches(f) : bstate[f][k] = "conv"}} :
              f \in Files}

\* C3: the number of batches that hold a pool connection and are conducting
\* a protocol conversation never exceeds the configured connections, and
\* neither does the number of connections the pool has open.
C3_PoolCap ==
    /\ Cardinality(ConversingBatches) <= cfg.connections
    /\ Cardinality({c \in Slots : cstate[c] /= "closed"}) <= cfg.connections

\* C3 witness: two files downloading, as many conversations as connections,
\* from different files, while a further batch is retrying its acquisition.
C3_Witness ==
    /\ cfg.connections = 2
    /\ Cardinality(ConversingBatches) = 2
    /\ \E x, y \in ConversingBatches : x[1] /= y[1]
    /\ \E f \in Files : \E b \in Batches(f) :
          bstate[f][b] = "get" /\ attempt[f][b] > 0

\* C5: when force_redownload is false and the output path exists with
\* length equal to the sum of the declared segment bytes, the file is done
\* without any pool acquisition (hence without any NNTP command), the
\* existing file is left as it was, and the result reports every segment
\* downloaded, none failed, download_time 0 and no failed message ids.
C5_SkipComplete ==
    \A f \in Files :
        (/\ ~cfg.force_redownload
         /\ disk0[f].exists
         /\ disk0[f].len = SumSeq([p \in 1..Len(nzb[f]) |-> nzb[f][p].bytes])
         /\ fstate[f] /= "queued") =>
            /\ fstate[f] = "done"
            /\ acquired[f] = 0
            /\ \A b \in Batches(f) : bstate[f][b] = "queued"
            /\ disk[f] = disk0[f]
            /\ IsSome(dresult[f])
            /\ Unwrap(dresult[f]).segments_downloaded = Len(nzb[f])
            /\ Unwrap(dresult[f]).segments_failed = 0
            /\ Unwrap(dresult[f]).download_time = 0
            /\ Unwrap(dresult[f]).failed_message_ids = <<>>

\* C5 witness: a complete file was skipped while the other file of the NZB
\* was downloaded over the pool, and download_nzb has returned.
C5_Witness ==
    /\ ~cfg.force_redownload
    /\ disk0[1].exists
    /\ disk0[1].len = expected_size(nzb[1])
    /\ fstate[1] = "done"
    /\ Len(nzb) = 2
    /\ acquired[2] > 0
    /\ npc = "done"

\* C6: over any run of download_nzb the aggregate byte counter of the
\* progress meter never decreases, and its final value equals total_bytes.
C6_ProgressMonotone ==
    /\ [][position' >= position]_vars
    /\ [](npc = "done" => position = total_bytes)

\* C8: a connection on which a batch observed a read timeout, a transport
\* error or another desync (the pipelined call returning an error included)
\* is destroyed and never handed out again by the pool to a later batch.
C8_PoisonedNeverReused ==
    \A f \in Files : \A b \in Batches(f) :
        bstate[f][b] = "conv" => ~poisoned[bconn[f][b]]

\* C9: when download_segments_pipelined returns an error for a batch, the
\* file downloader emits (n, None) for every request of that batch, so that
\* each of those segments is counted in segments_failed and its message_id
\* appears in failed_message_ids.
C9_ErrorBatchCounted ==
    \A f \in Files : \A b \in Batches(f) :
        boutcome[f][b] = "err" =>
            LET batch == batches(f)[b] IN
            /\ \E i \in 1..Len(batch_results[f]) :
                  batch_results[f][i] =
                      [j \in 1..Len(batch) |-> <<batch[j].segment_number, None>>]
            /\ fstate[f] = "done" =>
                  /\ Unwrap(dresult[f]).segments_failed >= Len(batch)
                  /\ \A j \in 1..Len(batch) :
                        \E k \in 1..Len(Unwrap(dresult[f]).failed_message_ids) :
                            Unwrap(dresult[f]).failed_message_ids[k]
                                = batch[j].message_id

\* C10: a batch that cannot acquire a connection before
\* connection_wait_timeout elapses emits (n, None) for every one of its
\* requests and completes; its sibling batches are not cancelled (the file
\* returns only after every batch ran to its own end), and the file yields
\* a DownloadResult that counts those requests as failed.
C10_StarvedBatchIsolated ==
    \A f \in Files : \A b \in Batches(f) :
        boutcome[f][b] = "starved" =>
            LET batch == batches(f)[b] IN
            /\ bstate[f][b] = "done"
            /\ \E i \in 1..Len(batch_results[f]) :
                  batch_results[f][i] =
                      [j \in 1..Len(batch) |-> <<batch[j].segment_number, None>>]
            /\ fstate[f] \in {"done", "error"} =>
                  \A k \in Batches(f) : bstate[f][k] = "done"
            /\ fstate[f] = "done" =>
                  /\ \A k \in Batches(f) : boutcome[f][k] /= "none"
                  /\ IsSome(dresult[f])
                  /\ Unwrap(dresult[f]).segments_failed >= Len(batch)

\* C10 witness: the first batch of a file gave up, a sibling batch then
\* fetched its segment, and the file returned its DownloadResult.
C10_Witness ==
    \E f \in Files :
        /\ Len(batches(f)) >= 2
        /\ boutcome[f][1] = "starved"
        /\ boutcome[f][2] = "ok"
        /\ fstate[f] = "done"
        /\ Unwrap(dresult[f]).segments_downloaded >= 1

\* lines 171-180: the files whose result download_files_concurrent_with_config
\* returns (those whose future gave Ok)
successful_results == {f \in Files : IsSome(dresult[f])}

\* the resume check skipped f
WasSkipped(f) ==
    /\ ~cfg.force_redownload
    /\ disk0[f].exists
    /\ disk0[f].len = expected_size(nzb[f])

\* C19: a file that fails with an error neither cancels nor skips the other
\* files: while a file waits and a place is free the next file is started
\* whatever has failed, every file that did not fail is downloaded to
\* completion, and the call returns exactly the results of those files
C19_ErrorDoesNotAbortNzb ==
    /\ (npc = "run" /\ (\E g \in Files : fstate[g] = "queued")
            /\ Cardinality(InFlightFiles) < max_concurrent_files)
           => \E g \in Files : NextFile(g)
    /\ \A f \in Files :
          fstate[f] = "done" =>
              \/ WasSkipped(f) /\ dresult[f] = Some(SkipResult(f))
              \/ /\ \A b \in Batches(f) : bstate[f][b] = "done"
                 /\ IsSome(dresult[f])
    /\ npc = "done" =>
          /\ \A f \in Files : fstate[f] \in {"done", "error"}
          /\ successful_results = {f \in Files : fstate[f] /= "error"}

C19_Witness ==
    /\ npc = "done"
    /\ \E f, g \in Files :
          /\ fstate[f] = "error"
          /\ fstate[g] = "done"
          /\ ~WasSkipped(g)
          /\ Unwrap(dresult[g]).segments_downloaded = Len(nzb[g])
          /\ successful_results = {g}

\* C28: for a file that is downloaded (not skipped), the declared size of
\* each of its segments has been added to the progress meter exactly once
\* when the file completes, whatever the outcomes of its batches; stated
\* for an NZB of one file with dense segment numbers, where the meter then
\* reads the file's expected size.
C28_ProgressOncePerSegment ==
    (Len(nzb) = 1 /\ npc = "run" /\ fstate[1] = "done" /\ ~WasSkipped(1)
        /\ Dense(nzb[1]))
        => position = expected_size(nzb[1])

\* the numbers inside [1..N] that exactly one segment of the file carries
InRangeNumbers(file) ==
    {n \in 1..Len(file) :
        Cardinality({p \in 1..Len(file) : file[p].number = n}) = 1}

\* C29: a fetched segment whose number is outside [1..N] (0, or more than
\* N) is discarded: none of the articles written to the output belongs to
\* such a segment, and the data fetched for a number inside [1..N] is in
\* the output whatever out-of-range segments were fetched with it.  Stated
\* for an NZB of one file.
C29_OutOfRangeDiscarded ==
    (Len(nzb) = 1 /\ fstate[1] = "done" /\ ~WasSkipped(1)) =>
        /\ \A i \in 1..Len(disk[1].content) :
              nzb[1][disk[1].content[i][2]].number \in 1..Len(nzb[1])
        /\ \A i \in 1..Len(Flatten(batch_results[1])) :
              LET r == Flatten(batch_results[1])[i] IN
              (r[1] \in InRangeNumbers(nzb[1]) /\ IsSome(r[2]))
                  => Unwrap(r[2]) \in Range(disk[1].content)

\* C30: every file that is downloaded and returns a DownloadResult accounts
\* for all its segments, whatever the outcomes of its batches:
\* segments_downloaded + segments_failed is the number of segments and
\* failed_message_ids has segments_failed entries.  Stated for an NZB of
\* one file with dense segment numbers.
C30_EverySegmentAccounted ==
    (Len(nzb) = 1 /\ fstate[1] = "done" /\ ~WasSkipped(1) /\ Dense(nzb[1])) =>
        /\ IsSome(dresult[1])
        /\ Unwrap(dresult[1]).segments_downloaded
              + Unwrap(dresult[1]).segments_failed = Len(nzb[1])
        /\ Len(Unwrap(dresult[1]).failed_message_ids)
              = Unwrap(dresult[1]).segments_failed

\* C31: for every downloaded file, DownloadResult.size is the number of
\* bytes written to the output file, also when the NZB lists duplicate or
\* out-of-range segment numbers.  Stated for an NZB of one file.
C31_SizeIsBytesWritten ==
    (Len(nzb) = 1 /\ fstate[1] = "done" /\ ~WasSkipped(1)) =>
        /\ IsSome(dresult[1])
        /\ Unwrap(dresult[1]).size = disk[1].len
        /\ disk[1].len = TotalLen(disk[1].content)

(***************************************************************************)
(* Pipelined framing and the file it ends in (SpecPipe).                   *)
(***************************************************************************)

\* no read of the call has timed out, failed or met the end of the stream
ReadsOk == failedAt = 0 /\ ~broken /\ ~eof

\* a status line of the two codes that come without a body
NoBodyFollows(line) == line.k = "status" /\ line.code \in {"430", "423"}

\* the server follows every status line other than 430/423 (and the GROUP
\* reply) with a dot-terminated body
ServerSendsBodies ==
    \A p \in 1..Len(wire) :
        (wire[p].k = "status" /\ wire[p].req /= 0 /\ ~NoBodyFollows(wire[p]))
            => (p < Len(wire) /\ wire[p + 1].k = "data")

\* where the server's status line for request i stands on the wire
StatusPos(i) ==
    CHOOSE p \in 1..Len(wire) : wire[p].k = "status" /\ wire[p].req = i

ReplyCode(i) == wire[StatusPos(i)].code

\* the NzbFile the batch was cut from, and the batch's results as the
\* downloader holds them (the article of request p being that of <<1, p>>)
BatchFile ==
    MkFile(1, [p \in 1..Len(requests) |-> requests[p].segment_number])

BatchResultsOf(res) ==
    [p \in 1..Len(res) |->
        <<res[p][1],
          IF IsSome(res[p][2]) THEN Some(<<1, Unwrap(res[p][2])>>) ELSE None>>]

\* request i alone was answered 430 or 423, every other request 222
OnlyMissing(i) ==
    /\ NoBodyFollows(wire[StatusPos(i)])
    /\ \A j \in (1..Len(requests)) \ {i} : ReplyCode(j) = "222"

\* C20: for each request one status line is consumed, and a dot-terminated
\* body after it exactly when the status is neither 430 nor 423; so, while
\* the reads succeed and the server sends those bodies, every status read
\* starts at the status line of its own request, and when request i alone is
\* answered 430/423 the other segments are fetched and the file ends with
\* segments_failed = 1 and failed_message_ids = [message_id of i]
C20_PipelinedFraming ==
    /\ [](/\ (ppc = "status" /\ ReadsOk /\ ServerSendsBodies)
                 => rd + 1 = StatusPos(idx)
          /\ (ret = "Ok" /\ ReadsOk /\ requests /= <<>> /\ Dense(BatchFile))
                 => \A i \in 1..Len(requests) :
                        OnlyMissing(i) =>
                            /\ results[i] = <<requests[i].segment_number, None>>
                            /\ \A j \in (1..Len(requests)) \ {i} :
                                   results[j] = <<requests[j].segment_number,
                                                  Some(requests[j].message_id)>>
                            /\ LET r == FileResult(BatchFile,
                                            <<BatchResultsOf(results)>>)
                               IN  /\ r.segments_failed = 1
                                   /\ r.failed_message_ids = <<<<1, i>>>>)
    /\ [][/\ (ppc = "status" /\ rd' = rd + 1)
                 => IF NoBodyFollows(wire[rd + 1])
                    THEN idx' = idx + 1 /\ ppc' \in {"status", "done"}
                    ELSE idx' = idx /\ ppc' \in {"body", "drain"}
          /\ (ppc \in {"body", "drain"} /\ rd' = rd + 1)
                 => (idx' = idx + 1 <=> wire[rd + 1].k = "dot")]_vars

C20_Witness ==
    /\ ret = "Ok"
    /\ ReadsOk
    /\ Len(requests) = 2
    /\ Dense(BatchFile)
    /\ OnlyMissing(1)
    /\ results[2] = <<requests[2].segment_number, Some(requests[2].message_id)>>

(***************************************************************************)
(* ---------------- Part 3: process_downloads ---------------------------- *)
(***************************************************************************)

\* file names a DownloadResult's path can carry, by the shape that matters
FileKinds == {"x.par2", "x.rar", "x.part01.rar", "x.part02.rar", "x.r00", "x.mkv"}

\* patterns::par2::is_par2_file
is_par2_file(name) == name = "x.par2"

\* rar::is_rar_archive = patterns::rar::is_extractable_archive
is_rar_archive(name) == name \in {"x.rar", "x.part01.rar"}

DownloadResults == [name : FileKinds, segments_failed : {0, 1}]

PPInit ==
    /\ ppcfg \in [auto_par2_repair : BOOLEAN, auto_extract_rar : BOOLEAN,
                  deobfuscate_file_names : BOOLEAN]
    /\ dlres \in SeqsUpTo(DownloadResults, MaxResults)
    /\ par2_status = "none"
    /\ phase = "start"
    /\ phases = <<>>

\* results.iter().filter(|r| is_par2_file(&r.path))
downloaded_par2_files == SelectSeq(dlres, LAMBDA r : is_par2_file(r.name))

\* check_archive_integrity: the extractable archives of the directory whose
\* DownloadResult (the first of that name) has failed segments
archive_files_with_failures ==
    {i \in 1..Len(dlres) :
        /\ is_rar_archive(dlres[i].name)
        /\ LET first == CHOOSE j \in 1..Len(dlres) :
                            /\ dlres[j].name = dlres[i].name
                            /\ \A k \in 1..(j - 1) : dlres[k].name /= dlres[i].name
           IN  dlres[first].segments_failed > 0}

\* faulty variant: the PAR2 outcome is not consulted when no archive is broken
should_extract_ignoring_failed(status) ==
    ppcfg.auto_extract_rar
        /\ (archive_files_with_failures = {} \/ status = "Success")

\* lines 63-65
should_extract(status) ==
    ppcfg.auto_extract_rar
        /\ ((archive_files_with_failures = {} /\ status = "NoPar2Files")
            \/ status = "Success")

\* lines 31-47: nothing to do for an empty result list
ProcessStart ==
    /\ phase = "start"
    /\ phase' = IF dlres = <<>> THEN "done" ELSE "par2"
    /\ UNCHANGED <<ppcfg, dlres, par2_status, phases>>
    /\ UNCHANGED <<pipeVars, dlVars, extVars>>

\* faulty variant: an error of repair_with_par2 is not propagated and the
\* run goes on to the integrity check
ProcessPar2_error_ignored ==
    /\ phase = "par2"
    /\ IF ppcfg.auto_par2_repair
       THEN /\ phases' = Append(phases, "par2")
            /\ IF downloaded_par2_files = <<>>
               THEN par2_status' = "NoPar2Files" /\ phase' = "integrity"
               ELSE \/ \E st \in {"Success", "Failed"} :
                         par2_status' = st /\ phase' = "integrity"
                    \/ par2_status' = par2_status /\ phase' = "integrity"
       ELSE /\ par2_status' = "NoPar2Files"
            /\ phase' = "integrity"
            /\ phases' = phases
    /\ UNCHANGED <<ppcfg, dlres>>
    /\ UNCHANGED <<pipeVars, dlVars, extVars>>

\* lines 49-57 with par2::repair_with_par2: NoPar2Files without PAR2 files,
\* else the kernel's verdict, or an error that ends process_downloads
ProcessPar2 ==
    /\ phase = "par2"
    /\ IF ppcfg.auto_par2_repair
       THEN /\ phases' = Append(phases, "par2")
            /\ IF downloaded_par2_files = <<>>
               THEN par2_status' = "NoPar2Files" /\ phase' = "integrity"
               ELSE \/ \E st \in {"Success", "Failed"} :
                         par2_status' = st /\ phase' = "integrity"
                    \/ par2_status' = par2_status /\ phase' = "error"
       ELSE /\ par2_status' = "NoPar2Files"
            /\ phase' = "integrity"
            /\ phases' = phases
    /\ UNCHANGED <<ppcfg, dlres>>
    /\ UNCHANGED <<pipeVars, dlVars, extVars>>

\* line 60: check_archive_integrity, whose read_dir can fail
ProcessIntegrity ==
    /\ phase = "integrity"
    /\ phases' = Append(phases, "integrity")
    /\ \/ phase' = "extract"
       \/ phase' = "error"
    /\ UNCHANGED <<ppcfg, dlres, par2_status>>
    /\ UNCHANGED <<pipeVars, dlVars, extVars>>

\* lines 62-73: extraction, only when should_extract
ProcessExtract ==
    /\ phase = "extract"
    /\ IF should_extract(par2_status)
       THEN /\ phases' = Append(phases, "extract")
            /\ \/ phase' = "deobfuscate"
               \/ phase' = "error"
       ELSE /\ phases' = phases
            /\ phase' = "deobfuscate"
    /\ UNCHANGED <<ppcfg, dlres, par2_status>>
    /\ UNCHANGED <<pipeVars, dlVars, extVars>>

\* lines 76-81: deobfuscation, whose errors are swallowed
ProcessDeobfuscate ==
    /\ phase = "deobfuscate"
    /\ phases' = IF ppcfg.deobfuscate_file_names
                 THEN Append(phases, "deobfuscate") ELSE phases
    /\ phase' = "done"
    /\ UNCHANGED <<ppcfg, dlres, par2_status>>
    /\ UNCHANGED <<pipeVars, dlVars, extVars>>

PPNext ==
    \/ ProcessStart
    \/ ProcessPar2
    \/ ProcessIntegrity
    \/ ProcessExtract
    \/ ProcessDeobfuscate

InitPP == PPInit /\ PipeOff /\ DlOff /\ ExtOff

SpecPP == InitPP /\ [][PPNext]_vars

(***************************************************************************)
(* Claims about process_downloads (SpecPP).                                *)
(***************************************************************************)

\* C4: the extraction phase is never started in a run in which the PAR2
\* phase returned Par2Status::Failed.
C4_NoExtractAfterFailed ==
    par2_status = "Failed" => \A i \in 1..Len(phases) : phases[i] /= "extract"

\* C4 witness: PAR2 returned Failed, extraction is enabled, an intact
\* extractable archive is present, and the run went past the extraction
\* gate.
C4_Witness ==
    /\ par2_status = "Failed"
    /\ ppcfg.auto_extract_rar
    /\ \E i \in 1..Len(dlres) : is_rar_archive(dlres[i].name)
    /\ archive_files_with_failures = {}
    /\ phase = "done"

\* patterns::rar::is_rar_related: a name ending in .rar, or an old-style
\* split volume .rNN
is_rar_related(name) == name \in {"x.rar", "x.part01.rar", "x.part02.rar", "x.r00"}

\* extract_archives was called in this run
ExtractStarted == \E i \in 1..Len(phases) : phases[i] = "extract"

\* the run reached line 68, where should_extract is acted on
GateDecided ==
    /\ \E i \in 1..Len(phases) : phases[i] = "integrity"
    /\ phase \in {"deobfuscate", "done"} \/ ExtractStarted

\* C12: extraction starts if and only if auto_extract_rar is enabled and
\* either (no extractable archive is marked broken and no PAR2 file was
\* present among the downloads) or the PAR2 phase returned Success.
C12_ExtractIff ==
    GateDecided =>
        (ExtractStarted <=>
            /\ ppcfg.auto_extract_rar
            /\ \/ /\ archive_files_with_failures = {}
                  /\ downloaded_par2_files = <<>>
               \/ par2_status = "Success")

\* C13: unless the PAR2 phase returned Success, extraction is never started
\* when a downloaded file of a RAR set (the entry point or a later volume)
\* had failed segments.
C13_NoExtractOfBrokenSet ==
    (ExtractStarted /\ par2_status /= "Success") =>
        \A i \in 1..Len(dlres) :
            is_rar_related(dlres[i].name) => dlres[i].segments_failed = 0

\* position of a phase in the order of process_downloads
PhaseRank(p) ==
    CASE p = "par2" -> 1
      [] p = "integrity" -> 2
      [] p = "extract" -> 3
      [] p = "deobfuscate" -> 4

\* C25: in every run of process_downloads the phases that run do so in the
\* order PAR2, integrity check, extraction, deobfuscation, each at most once
\* and each after the previous one returned; a phase after PAR2 starts only
\* when PAR2 returned a status, an error of PAR2 or of extraction is the last
\* thing the run does, and a finished or failed run starts no further phase.
C25_PhaseOrder ==
    /\ [](\A i, j \in 1..Len(phases) :
              i < j => PhaseRank(phases[i]) < PhaseRank(phases[j]))
    /\ [](\A i \in 1..Len(phases) :
              phases[i] \in {"integrity", "extract", "deobfuscate"}
                  => par2_status \in {"NoPar2Files", "Success", "Failed"})
    /\ [](phase = "error" =>
              /\ phases /= <<>>
              /\ phases[Len(phases)] \in {"par2", "integrity", "extract"}
              /\ (phases[Len(phases)] = "par2" => par2_status = "none"))
    /\ [][(phase \in {"error", "done"}) => (phases' = phases)]_vars
    /\ [][\/ phases' = phases
          \/ \E p \in {"par2", "integrity", "extract", "deobfuscate"} :
                 phases' = Append(phases, p)]_vars

\* C25 witness: a finished run in which all four phases ran, in order.
C25_Witness ==
    /\ phase = "done"
    /\ phases = <<"par2", "integrity", "extract", "deobfuscate">>

(***************************************************************************)
(* ---------------- Part 4: the acquisition loop of a batch -------------- *)
(* downloader.rs 262-310, with the clock made explicit.                    *)
(***************************************************************************)

\* Duration::from_millis(500)
BackoffBaseMs == 500
\* attempt.min(4)
BackoffCapShift == 4
\* attempt % 5 == 0
NoticeEvery == 5
\* Duration::from_secs(60), in milliseconds
GetTimeoutMs == 60000
\* the default connection_wait_timeout, in milliseconds
DefaultWaitMs == 300000

\* the values of connection_wait_timeout tried, in milliseconds
WaitTimeouts == {DefaultWaitMs, DefaultWaitMs + GetTimeoutMs + GetTimeoutMs}

\* how long a get_connection that answers before its deadline can take
QuickTimes == {0, GetTimeoutMs \div 2}

Min(a, b) == IF a <= b THEN a ELSE b

RECURSIVE Pow2(_)
Pow2(n) == IF n = 0 THEN 1 ELSE 2 * Pow2(n - 1)

\* line 270: Duration::from_millis(500) * (1 << attempt.min(4))
BackoffDelay(a) == BackoffBaseMs * Pow2(Min(a, BackoffCapShift))

\* line 274: attempt % 5 == 0 && !progress.is_hidden()
NoticeDue(a) == a % NoticeEvery = 0 /\ ~w_hidden

WaitInit ==
    /\ w_pc = "check"
    /\ w_attempt = 0
    /\ w_elapsed = 0
    /\ w_max_wait \in WaitTimeouts
    /\ w_hidden \in BOOLEAN
    /\ w_notices = 0
    /\ w_hung = TRUE

\* line 267: while conn.is_none() && start.elapsed() < max_wait
WaitCheck ==
    /\ w_pc = "check"
    /\ w_pc' = IF w_elapsed < w_max_wait
               THEN (IF w_attempt > 0 THEN "sleep" ELSE "get")
               ELSE "gaveup"
    /\ UNCHANGED <<w_attempt, w_elapsed, w_max_wait, w_hidden, w_notices, w_hung>>
    /\ UNCHANGED <<pipeVars, dlVars, ppVars, fnVars, par2Vars, connVars,
                 rarVars, cntVars, hdlVars>>

\* lines 268-280: the backoff sleep, then the notice when one is due
WaitSleep ==
    /\ w_pc = "sleep"
    /\ w_elapsed' = w_elapsed + BackoffDelay(w_attempt)
    /\ w_notices' = IF NoticeDue(w_attempt) THEN w_notices + 1 ELSE w_notices
    /\ w_pc' = "get"
    /\ UNCHANGED <<w_attempt, w_max_wait, w_hidden, w_hung>>
    /\ UNCHANGED <<pipeVars, dlVars, ppVars, fnVars, par2Vars, connVars,
                 rarVars, cntVars, hdlVars>>

\* lines 282-291: get_connection under its 60 s deadline: a handle, an
\* error before the deadline, or the deadline itself
WaitGet ==
    /\ w_pc = "get"
    /\ \/ \E d \in QuickTimes :
            /\ w_elapsed' = w_elapsed + d
            /\ w_hung' = FALSE
            /\ \/ w_pc' = "have" /\ w_attempt' = w_attempt
               \/ w_pc' = "check" /\ w_attempt' = w_attempt + 1
       \/ /\ w_elapsed' = w_elapsed + GetTimeoutMs
          /\ w_hung' = w_hung
          /\ w_pc' = "check"
          /\ w_attempt' = w_attempt + 1
    /\ UNCHANGED <<w_max_wait, w_hidden, w_notices>>
    /\ UNCHANGED <<pipeVars, dlVars, ppVars, fnVars, par2Vars, connVars,
                 rarVars, cntVars, hdlVars>>

WaitNext == WaitCheck \/ WaitSleep \/ WaitGet

InitWait == WaitInit /\ PipeOff /\ DlOff /\ PPOff /\ FnOff /\ Par2Off /\ ConnOff
    /\ RarOff /\ CntOff /\ HdlOff

SpecWait == InitWait /\ [][WaitNext]_vars

(***************************************************************************)
(* Claims about the acquisition loop (SpecWait).                           *)
(***************************************************************************)

\* C11: when every acquisition hangs until its 60 s per-attempt timeout and
\* the progress display is visible, a "waiting for connection" notice has
\* been emitted for every 5 failed attempts, and at least one notice has
\* been emitted by the time the batch gives up after the default
\* connection_wait_timeout.
C11_NoticeBeforeGiveUp ==
    (w_hung /\ ~w_hidden /\ w_pc \in {"get", "gaveup"}) =>
        /\ w_pc = "get" => w_notices = w_attempt \div NoticeEvery
        /\ (w_pc = "gaveup" /\ w_max_wait = DefaultWaitMs) => w_notices >= 1

\* C24: the sleep before the k-th retry (k = 1, 2, 3, ...) lasts
\* 500 ms * 2^(k-1) capped at 8 s, and no sleep precedes the first attempt
C24_BackoffSequence ==
    /\ [](w_pc = "sleep" => w_attempt >= 1)
    /\ [][w_pc = "sleep" =>
             w_elapsed' - w_elapsed =
                 Min(BackoffBaseMs * Pow2(w_attempt - 1),
                     BackoffBaseMs * Pow2(BackoffCapShift))]_vars

(***************************************************************************)
(* ---------------- Part 5: functions applied to one input --------------- *)
(***************************************************************************)

(***************************************************************************)
(* 5.1  The output path of an archive entry (rar.rs 160-226).              *)
(* A path is the sequence of its components.                               *)
(***************************************************************************)

\* longest entry name tried, in components
MaxComponents == 3

\* std::path::Component: Prefix, RootDir, CurDir, ParentDir, Normal
PrefixDir == "C:"
RootDir == "/"
CurDir == "."
ParentDir == ".."
NormalNames == {"a", "b"}
Components == {PrefixDir, RootDir, CurDir, ParentDir} \cup NormalNames

\* matches!(c, Component::Normal(_))
IsNormal(c) == c \in NormalNames

\* the target directory of the extraction
output_dir == <<RootDir, "dl", "job">>

\* faulty variant: the entry name is used as the archive states it
safe_filename_unfiltered(filename) == filename

\* lines 189-192: filename.components().filter(Normal).collect()
safe_filename(filename) == SelectSeq(filename, IsNormal)

\* PathBuf::join: an absolute or prefixed path replaces the base
PathJoin(base, path) ==
    IF path /= <<>> /\ path[1] \in {PrefixDir, RootDir} THEN path ELSE base \o path

\* where a path leads once `.` and `..` are followed
RECURSIVE ResolveFrom(_, _)
ResolveFrom(at, path) ==
    IF path = <<>> THEN at
    ELSE LET c == Head(path) IN
         ResolveFrom(
            CASE c = CurDir    -> at
              [] c = ParentDir -> IF Len(at) > 1 THEN SubSeq(at, 1, Len(at) - 1) ELSE at
              [] c \in {PrefixDir, RootDir} -> <<c>>
              [] OTHER         -> Append(at, c),
            Tail(path))

Resolve(path) == ResolveFrom(<<>>, path)

\* lines 167-204: the path handed to extract_to, or None when the entry is
\* skipped (a directory entry, or no Normal component)
OutputPathOf(entry) ==
    IF entry.is_directory THEN None
    ELSE LET safe == safe_filename(entry.filename) IN
         IF safe = <<>> THEN None ELSE Some(PathJoin(output_dir, safe))

RarInit ==
    /\ fn_pc = "in"
    /\ fn_in \in [filename : SeqsUpTo(Components, MaxComponents),
                  is_directory : BOOLEAN]
    /\ fn_out = <<>>

\* one iteration of the loop of lines 160-231 on the entry read
ExtractEntry ==
    /\ fn_pc = "in"
    /\ fn_out' = OutputPathOf(fn_in)
    /\ fn_pc' = "out"
    /\ UNCHANGED fn_in
    /\ UNCHANGED <<pipeVars, dlVars, ppVars, waitVars, par2Vars, connVars,
                 rarVars, cntVars, hdlVars>>

InitRar == RarInit /\ PipeOff /\ DlOff /\ PPOff /\ WaitOff /\ Par2Off /\ ConnOff
    /\ RarOff /\ CntOff /\ HdlOff

SpecRar == InitRar /\ [][ExtractEntry]_vars

\* a path that leads strictly inside the target directory
StrictlyInside(path) ==
    LET at == Resolve(path) IN
    /\ Len(at) > Len(output_dir)
    /\ SubSeq(at, 1, Len(output_dir)) = output_dir

\* C14: for every entry name, the path the extractor writes to is the
\* target directory joined with only the Normal components of the name,
\* which lies strictly inside the target directory; an entry without a
\* Normal component is skipped and nothing is written.
C14_ExtractInsideTarget ==
    (fn_pc = "out" /\ ~fn_in.is_directory) =>
        LET normals == SelectSeq(fn_in.filename, IsNormal) IN
        IF normals = <<>>
        THEN fn_out = None
        ELSE /\ fn_out = Some(output_dir \o normals)
             /\ StrictlyInside(Unwrap(fn_out))

\* C14 witness: an entry named ../../a was extracted
C14_Witness ==
    /\ fn_pc = "out"
    /\ ~fn_in.is_directory
    /\ fn_in.filename = <<ParentDir, ParentDir, "a">>
    /\ IsSome(fn_out)

(***************************************************************************)
(* 5.2  decode_yenc_simple over bytes (connection.rs 230-269), against an  *)
(* encoder that inverts its rules.  A body is a sequence of bytes.         *)
(***************************************************************************)

\* longest payload tried, in bytes
MaxBytes == 3

\* u8
ByteMod == 256
\* b'\n', b'\r', b'='
LF == 10
CR == 13
EscapeByte == 61
\* wrapping_sub(42), wrapping_sub(64)
YencOffset == 42
YencEscapeOffset == 64

\* b"=ybegin", b"=yend", b"=ypart"
YBEGIN == <<61, 121, 98, 101, 103, 105, 110>>
YEND == <<61, 121, 101, 110, 100>>
YPART == <<61, 121, 112, 97, 114, 116>>

\* payload bytes tried: those whose encoding is NUL, LF, CR or `=`, the one
\* whose encoding is `y`, and the two ends of the byte range
PayloadBytes == {0, 19, 79, 214, 224, 227, 255}

\* payload bytes per encoded line tried
LineLens == {1, 2}

\* slice::starts_with
StartsWithBytes(line, prefix) ==
    Len(line) >= Len(prefix) /\ SubSeq(line, 1, Len(prefix)) = prefix

\* data.split(|&b| b == b'\n'): the lines of data, from position i on, cur
\* being the line gathered so far
RECURSIVE SplitFrom(_, _, _)
SplitFrom(data, i, cur) ==
    IF i > Len(data) THEN <<cur>>
    ELSE IF data[i] = LF THEN <<cur>> \o SplitFrom(data, i + 1, <<>>)
    ELSE SplitFrom(data, i + 1, Append(cur, data[i]))

SplitLines(data) == SplitFrom(data, 1, <<>>)

\* byte.wrapping_sub(42)
PlainByte(byte) == (byte + ByteMod - YencOffset) % ByteMod

\* faulty variant: the escaped byte is only shifted by 42
UnescapeByte_without_64(next_byte) == (next_byte + ByteMod - YencOffset) % ByteMod

\* next_byte.wrapping_sub(64).wrapping_sub(42)
UnescapeByte(next_byte) ==
    (((next_byte + ByteMod - YencEscapeOffset) % ByteMod)
        + ByteMod - YencOffset) % ByteMod

\* lines 251-262: the bytes one data line decodes to, from position i on
RECURSIVE DecodeLineFrom(_, _)
DecodeLineFrom(line, i) ==
    IF i > Len(line) THEN <<>>
    ELSE IF line[i] = EscapeByte
         THEN IF i + 1 <= Len(line)
              THEN <<UnescapeByte(line[i + 1])>> \o DecodeLineFrom(line, i + 2)
              ELSE <<>>
    ELSE IF line[i] /= CR
         THEN <<PlainByte(line[i])>> \o DecodeLineFrom(line, i + 1)
    ELSE DecodeLineFrom(line, i + 1)

\* lines 236-264: the loop over the lines
RECURSIVE DecodeLines(_, _)
DecodeLines(lines, in_data) ==
    IF lines = <<>> THEN <<>>
    ELSE LET line == Head(lines) IN
         IF StartsWithBytes(line, YBEGIN) THEN DecodeLines(Tail(lines), TRUE)
         ELSE IF StartsWithBytes(line, YEND) THEN <<>>
         ELSE IF StartsWithBytes(line, YPART) THEN DecodeLines(Tail(lines), in_data)
         ELSE (IF in_data /\ line /= <<>> THEN DecodeLineFrom(line, 1) ELSE <<>>)
                  \o DecodeLines(Tail(lines), in_data)

\* decode_yenc_simple, byte by byte
decode_yenc_bytes(data) == DecodeLines(SplitLines(data), FALSE)

\* the encoder that inverts the rules: add 42, and escape NUL, LF, CR and
\* `=` with `=` and a further 64
CriticalBytes == {0, LF, CR, EscapeByte}

EncodeByte(b) ==
    LET e == (b + YencOffset) % ByteMod IN
    IF e \in CriticalBytes THEN <<EscapeByte, (e + YencEscapeOffset) % ByteMod>>
    ELSE <<e>>

\* the payload from position i on, n payload bytes to a line, each line
\* ended by CR LF; k counts the payload bytes on the current line
RECURSIVE EncodeFrom(_, _, _, _)
EncodeFrom(x, i, n, k) ==
    IF i > Len(x) THEN (IF k > 0 THEN <<CR, LF>> ELSE <<>>)
    ELSE IF k = n THEN <<CR, LF>> \o EncodeFrom(x, i, n, 0)
    ELSE EncodeByte(x[i]) \o EncodeFrom(x, i + 1, n, k + 1)

yenc_encode(x, n) ==
    YBEGIN \o <<CR, LF>> \o EncodeFrom(x, 1, n, 0) \o YEND \o <<CR, LF>>

YencInit ==
    /\ fn_pc = "in"
    /\ fn_in \in [x : SeqsUpTo(PayloadBytes, MaxBytes), line_len : LineLens]
    /\ fn_out = <<>>

\* the payload is encoded and the body decoded
YencDecode ==
    /\ fn_pc = "in"
    /\ LET body == yenc_encode(fn_in.x, fn_in.line_len) IN
       fn_out' = [body |-> body, decoded |-> decode_yenc_bytes(body)]
    /\ fn_pc' = "out"
    /\ UNCHANGED fn_in
    /\ UNCHANGED <<pipeVars, dlVars, ppVars, waitVars, par2Vars, connVars,
                 rarVars, cntVars, hdlVars>>

InitYenc == YencInit /\ PipeOff /\ DlOff /\ PPOff /\ WaitOff /\ Par2Off /\ ConnOff
    /\ RarOff /\ CntOff /\ HdlOff

SpecYenc == InitYenc /\ [][YencDecode]_vars

\* C15: decoding the yEnc body obtained from x by the inverse of the decode
\* rules returns exactly x, and the decoded output is never longer than the
\* body.
C15_YencRoundTrip ==
    fn_pc = "out" =>
        /\ fn_out.decoded = fn_in.x
        /\ Len(fn_out.decoded) <= Len(fn_out.body)

\* C15 witness: a payload whose bytes encode to `=`, LF and `y`, one byte
\* to a line, was encoded and decoded
C15_Witness ==
    /\ fn_pc = "out"
    /\ fn_in.x = <<19, 224, 79>>
    /\ fn_in.line_len = 1
    /\ Len(fn_out.body) > Len(YBEGIN) + Len(YEND) + Len(fn_in.x)

(***************************************************************************)
(* 5.3  authenticate (connection.rs 116-146).  A response line is the      *)
(* sequence of its whitespace-separated tokens; the empty sequence is the  *)
(* empty line read at the end of the stream.                               *)
(***************************************************************************)

\* longest response line tried, in tokens
MaxTokens == 2

Usernames == {"alice", "bob"}
Passwords == {"pw1", "pw2"}

\* tokens a response line is made of: status codes, and words that may
\* repeat what the client sent
ResponseTokens == {"281", "381", "481", "alice", "pw1"}

ResponseLines == SeqsUpTo(ResponseTokens, MaxTokens)

\* response.starts_with(code)
ResponseStartsWith(response, code) == response /= <<>> /\ response[1] = code

\* lines 130 / 139: response.split_whitespace().next().unwrap_or("Unknown")
sanitized(response) == IF response = <<>> THEN <<"Unknown">> ELSE <<response[1]>>

\* NntpError::AuthFailed(format!("Authentication failed ({})", sanitized))
AuthFailed(response) ==
    [ok |-> FALSE,
     message |-> <<"Authentication failed (">> \o sanitized(response) \o <<")">>]

AuthOk == [ok |-> TRUE, message |-> <<>>]

\* lines 116-146: the commands sent and the value returned, given the
\* response to AUTHINFO USER and the response to AUTHINFO PASS
authenticate(config, responses) ==
    LET user == <<"AUTHINFO USER", config.username>>
        pass == <<"AUTHINFO PASS", config.password>>
    IN  IF ResponseStartsWith(responses[1], "381")
        THEN [sent |-> <<user, pass>>,
              result |-> IF ~ResponseStartsWith(responses[2], "281")
                         THEN AuthFailed(responses[2]) ELSE AuthOk]
        ELSE [sent |-> <<user>>,
              result |-> IF ~ResponseStartsWith(responses[1], "281")
                         THEN AuthFailed(responses[1]) ELSE AuthOk]

AuthInit ==
    /\ fn_pc = "in"
    /\ fn_in \in [config : [username : Usernames, password : Passwords],
                  responses : [1..2 -> ResponseLines]]
    /\ fn_out = <<>>

Authenticate ==
    /\ fn_pc = "in"
    /\ fn_out' = authenticate(fn_in.config, fn_in.responses)
    /\ fn_pc' = "out"
    /\ UNCHANGED fn_in
    /\ UNCHANGED <<pipeVars, dlVars, ppVars, waitVars, par2Vars, connVars,
                 rarVars, cntVars, hdlVars>>

InitAuth == AuthInit /\ PipeOff /\ DlOff /\ PPOff /\ WaitOff /\ Par2Off /\ ConnOff
    /\ RarOff /\ CntOff /\ HdlOff

SpecAuth == InitAuth /\ [][Authenticate]_vars

\* the message has s among its parts
Mentions(message, s) == \E i \in 1..Len(message) : message[i] = s

\* C16: the error of a failed authentication depends only on the server's
\* responses (a run with other credentials and the same responses yields
\* the same value), and its message contains neither the username nor the
\* password.
C16_AuthErrorRedacted ==
    fn_pc = "out" =>
        /\ \A u \in Usernames : \A p \in Passwords :
              authenticate([username |-> u, password |-> p],
                           fn_in.responses).result = fn_out.result
        /\ ~fn_out.result.ok =>
              /\ ~Mentions(fn_out.result.message, fn_in.config.username)
              /\ ~Mentions(fn_out.result.message, fn_in.config.password)

(***************************************************************************)
(* Part 5.4: the deobfuscator's renames (processing/deobfuscate.rs).       *)
(* A file name is a sequence of pieces of text: the word "mkv", a dot, a   *)
(* colon, and (in names the renames build) "_" and "1".  The hint          *)
(* (useful_name) may also hold a slash and a control character.  The       *)
(* directory holds one or two files; each has a size and either content    *)
(* whose magic bytes are those of a Matroska file, or content with no      *)
(* known magic.  The renames themselves (fs::rename) succeed.              *)
(***************************************************************************)
MaxNameLen == 3
MaxHintLen == 1

NameTokens == {"mkv", ".", ":"}
HintTokens == {"mkv", "/", "\t"}
FileSizes == {2, 3}

\* lines 142-143: the characters sanitize_name replaces
ForbiddenChars == {"/", "\\", ":", "*", "?", "\"", "<", ">", "|"}

is_control(c) == c = "\t"

sanitize_name(name) ==
    [i \in 1..Len(name) |->
        IF name[i] \in ForbiddenChars \/ is_control(name[i]) THEN "_"
        ELSE name[i]]

RECURSIVE LastDot(_, _)
LastDot(name, i) ==
    IF i = 0 THEN 0 ELSE IF name[i] = "." THEN i ELSE LastDot(name, i - 1)

\* Path::file_stem and Path::extension of a bare file name: the name is
\* split at its last dot, unless that dot is its first character
file_stem(name) ==
    LET d == LastDot(name, Len(name)) IN
    IF d <= 1 THEN name ELSE SubSeq(name, 1, d - 1)

extension(name) ==
    LET d == LastDot(name, Len(name)) IN
    IF d <= 1 THEN None ELSE Some(SubSeq(name, d + 1, Len(name)))

\* Path::with_extension
with_extension(name, ext) ==
    file_stem(name) \o (IF ext = <<>> THEN <<>> ELSE <<".">> \o ext)

get_ext(name) ==
    IF IsSome(extension(name)) THEN <<".">> \o Unwrap(extension(name))
    ELSE <<>>

get_basename(name) == with_extension(name, <<>>)

\* "mkv" is one of POPULAR_EXTENSIONS, and the extension the Matroska
\* magic bytes map to
has_popular_extension(name) == extension(name) = Some(<<"mkv">>)

what_is_most_likely_extension(f) ==
    IF f.magic THEN Some(<<".", "mkv">>) ELSE None

\* the first free name; with at most two files in the directory "_1" is free
get_unique_filename(name, existing) ==
    IF name \notin existing THEN name
    ELSE LET ext == IF IsSome(extension(name)) THEN Unwrap(extension(name))
                    ELSE <<>>
         IN  file_stem(name) \o <<"_", "1">>
                 \o (IF ext = <<>> THEN <<>> ELSE <<".">> \o ext)

\* the number of characters of a name that a test holds of
RECURSIVE CountChars(_, _, _)
CountChars(name, i, per) ==
    IF i = 0 THEN 0 ELSE per[name[i]] + CountChars(name, i - 1, per)

\* the pieces of text names are built of: those of the directory listings
\* above and those the obfuscation heuristic is tried on
ObfTokens == {"F7F8F9", "yEnc", "Movie", "xkcd", "2023", "#!#!#!", ".", "mkv"}
AllTokens == NameTokens \cup {"_", "1"} \cup ObfTokens

\* str::len (all pieces are ASCII, one byte per character)
CharLen ==
    [t \in AllTokens |->
        CASE t \in {"F7F8F9", "#!#!#!"} -> 6
          [] t = "Movie" -> 5
          [] t \in {"yEnc", "xkcd", "2023"} -> 4
          [] t = "mkv" -> 3
          [] OTHER -> 1]
\* char::is_alphabetic
Alphabetic ==
    [t \in AllTokens |->
        CASE t = "Movie" -> 5
          [] t \in {"yEnc", "xkcd"} -> 4
          [] t \in {"mkv", "F7F8F9"} -> 3
          [] OTHER -> 0]
\* char::is_numeric
Numeric ==
    [t \in AllTokens |->
        CASE t = "2023" -> 4
          [] t = "F7F8F9" -> 3
          [] t = "1" -> 1
          [] OTHER -> 0]
\* char::is_ascii_hexdigit
HexDigits ==
    [t \in AllTokens |->
        CASE t = "F7F8F9" -> 6
          [] t = "2023" -> 4
          [] t \in {"yEnc", "xkcd"} -> 2
          [] t \in {"Movie", "1"} -> 1
          [] OTHER -> 0]
\* neither alphanumeric nor ' ', '-', '_'
Special ==
    [t \in AllTokens |->
        CASE t = "#!#!#!" -> 6
          [] t \in {".", ":"} -> 1
          [] OTHER -> 0]
\* a, e, i, o, u in either case
Vowels ==
    [t \in AllTokens |->
        CASE t = "Movie" -> 3
          [] t = "yEnc" -> 1
          [] OTHER -> 0]

\* lines 22, 58-59 over the pieces: no piece but "F7F8F9" lower-cases to
\* text that starts with f, and "yenc" cannot straddle two pieces
starts_with_f7f8f9(name) == name /= <<>> /\ name[1] = "F7F8F9"
contains_yenc(name) == \E i \in 1..Len(name) : name[i] = "yEnc"

\* lines 24-74: the tests made on name_without_ext
LooksObfuscated(name_without_ext) ==
    LET len == CountChars(name_without_ext, Len(name_without_ext), CharLen)
        special_chars ==
            CountChars(name_without_ext, Len(name_without_ext), Special)
        digits == CountChars(name_without_ext, Len(name_without_ext), Numeric)
        alpha ==
            CountChars(name_without_ext, Len(name_without_ext), Alphabetic)
        hex_chars ==
            CountChars(name_without_ext, Len(name_without_ext), HexDigits)
        vowels == CountChars(name_without_ext, Len(name_without_ext), Vowels)
    IN  \/ len < 5
        \/ special_chars > len \div 2
        \/ digits > len \div 2 /\ alpha < 3
        \/ hex_chars > (len * 3) \div 4 /\ len > 8
        \/ starts_with_f7f8f9(name_without_ext)
        \/ contains_yenc(name_without_ext)
        \/ digits > 10
        \/ alpha > 8 /\ vowels < alpha \div 4

\* faulty variant: the extension is not removed before the tests
is_probably_obfuscated_with_extension(filename) == LooksObfuscated(filename)

\* lines 14-75
is_probably_obfuscated(filename) == LooksObfuscated(file_stem(filename))

\* Step 1 (lines 199-229): files without a popular extension whose content
\* is recognised are renamed; exist is the set of names in the directory
RECURSIVE FixExtensions(_, _, _, _)
FixExtensions(files, i, exist, done) ==
    IF i > Len(files) THEN done
    ELSE LET f == files[i] IN
         IF has_popular_extension(f.name)
             \/ ~IsSome(what_is_most_likely_extension(f))
         THEN FixExtensions(files, i + 1, exist, Append(done, f))
         ELSE LET new_ext == Unwrap(what_is_most_likely_extension(f))
                  new_path == get_unique_filename(
                      with_extension(f.name, Tail(new_ext)), exist)
              IN  FixExtensions(files, i + 1,
                      (exist \ {f.name}) \cup {new_path},
                      Append(done, [f EXCEPT !.name = new_path]))

\* max_by_key: the last of the files of greatest size
get_biggest_file(files) ==
    CHOOSE i \in 1..Len(files) :
        /\ \A j \in 1..Len(files) : files[j].size <= files[i].size
        /\ \A j \in (i + 1)..Len(files) : files[j].size < files[i].size

Max0(S) == IF S = {} THEN 0 ELSE CHOOSE x \in S : \A y \in S : y <= x

\* Step 4 (lines 318-354): the files sharing the principal file's basename,
\* in list order; names holds the names now in the directory
RECURSIVE RenameRelated(_, _, _, _, _, _)
RenameRelated(files, i, big, sanitized_name, names, done) ==
    IF i > Len(files) THEN done
    ELSE IF i = big \/ get_basename(files[i].name) /= get_basename(files[big].name)
    THEN RenameRelated(files, i + 1, big, sanitized_name, names, done)
    ELSE LET stem == get_basename(files[big].name)
             remaining == SubSeq(files[i].name, Len(stem) + 1,
                                 Len(files[i].name))
             new_path == get_unique_filename(sanitized_name \o remaining, names)
         IN  RenameRelated(files, i + 1, big, sanitized_name,
                 (names \ {files[i].name}) \cup {new_path},
                 Append(done, new_path))

\* line 278: the principal file is left alone when it is not at least 1.5
\* times the second biggest (u64 arithmetic, the division rounding down)
NotSignificantlyLarger(biggest_size, second_biggest_size) ==
    second_biggest_size > 0 /\ biggest_size < (second_biggest_size * 3) \div 2

\* deobfuscate_files (lines 160-360): the names given by the renames of
\* Steps 3 and 4, the principal file's first
\* (no name over NameTokens has an extension of EXCLUDED_FILE_EXTS, line 241,
\* nor lies in a DVD/Bluray folder, lines 179-197)
deobfuscate_files(directory, useful_name) ==
    LET file_list == FixExtensions(directory, 1,
                         {directory[i].name : i \in 1..Len(directory)}, <<>>)
        big == get_biggest_file(file_list)
        biggest_file == file_list[big].name
        ext == get_ext(biggest_file)
        second_biggest_size ==
            Max0({file_list[j].size : j \in (1..Len(file_list)) \ {big}})
        names == {file_list[i].name : i \in 1..Len(file_list)}
        sanitized_name == sanitize_name(useful_name)
        new_path == get_unique_filename(sanitized_name \o ext, names)
    IN  IF ~is_probably_obfuscated(biggest_file) THEN <<>>
        ELSE IF NotSignificantlyLarger(file_list[big].size, second_biggest_size)
        THEN <<>>
        ELSE RenameRelated(file_list, 1, big, sanitized_name,
                 (names \ {biggest_file}) \cup {new_path}, <<new_path>>)

\* the names a directory listing can hold
FileNames == (SeqsUpTo(NameTokens, MaxNameLen) \ {<<>>}) \ {<<".">>, <<".", ".">>}

DirFiles == [name : FileNames, size : FileSizes, magic : BOOLEAN]

Directories ==
    {<<f>> : f \in DirFiles}
        \cup {<<f, g>> : f \in DirFiles,
                         g \in {h \in DirFiles : h.magic = FALSE}}

DeobfInit ==
    /\ fn_pc = "in"
    /\ fn_in \in {x \in [directory : Directories,
                         useful_name : SeqsUpTo(HintTokens, MaxHintLen) \ {<<>>}] :
                     Len(x.directory) = 2
                         => x.directory[1].name /= x.directory[2].name}
    /\ fn_out = <<>>

Deobfuscate ==
    /\ fn_pc = "in"
    /\ fn_out' = deobfuscate_files(fn_in.directory, fn_in.useful_name)
    /\ fn_pc' = "out"
    /\ UNCHANGED fn_in
    /\ UNCHANGED <<pipeVars, dlVars, ppVars, waitVars, par2Vars, connVars,
                 rarVars, cntVars, hdlVars>>

InitDeobf == DeobfInit /\ PipeOff /\ DlOff /\ PPOff /\ WaitOff /\ Par2Off /\ ConnOff
    /\ RarOff /\ CntOff /\ HdlOff

SpecDeobf == InitDeobf /\ [][Deobfuscate]_vars

\* C17: every name a deobfuscator rename gives (to the principal file or to
\* a related file) holds none of / \ : * ? " < > | and no control character
C17_RenamedNamesClean ==
    fn_pc = "out" =>
        \A k \in 1..Len(fn_out) : \A i \in 1..Len(fn_out[k]) :
            fn_out[k][i] \notin ForbiddenChars /\ ~is_control(fn_out[k][i])

(***************************************************************************)
(* Part 6: concurrent calls of Par2Repairer::repair_with_progress          *)
(* (processing/par2_ffi.rs).  Each caller is a thread; each step below is  *)
(* one critical section of the PROGRESS_CALLBACK mutex, or one step of the *)
(* PAR2 kernel, which raises progress events through progress_trampoline   *)
(* when it was started with it.  The slot holds the number of the caller   *)
(* whose closure it stores, or 0 for None.                                 *)
(***************************************************************************)
NumCallers == 2
MaxEvents == 2

Callers == 1..NumCallers

Par2Init ==
    /\ PROGRESS_CALLBACK = 0
    /\ t_pc = [t \in Callers |-> "store"]
    /\ t_cb \in [Callers -> BOOLEAN]
    /\ in_kernel = {}
    /\ delivered = [t \in Callers |-> 0]
    /\ raised = [t \in Callers |-> 0]
    /\ misrouted = FALSE
    /\ dropped = FALSE

\* lines 122-124: the callback, when one is given, goes into the slot
StoreCallback(t) ==
    /\ t_pc[t] = "store"
    /\ PROGRESS_CALLBACK' = IF t_cb[t] THEN t ELSE PROGRESS_CALLBACK
    /\ t_pc' = [t_pc EXCEPT ![t] = "check"]
    /\ UNCHANGED <<t_cb, in_kernel, delivered, misrouted, dropped, raised>>
    /\ UNCHANGED <<pipeVars, dlVars, ppVars, waitVars, fnVars, connVars,
                 rarVars, cntVars, hdlVars>>

\* lines 127-138: the slot is looked at under its lock, the lock is released,
\* and the kernel is entered with or without the trampoline
EnterKernel(t) ==
    /\ t_pc[t] = "check"
    /\ t_pc' = [t_pc EXCEPT ![t] =
                   IF PROGRESS_CALLBACK /= 0 THEN "par2_repair_with_progress"
                   ELSE "par2_repair_sync"]
    /\ in_kernel' = in_kernel \cup {t}
    /\ UNCHANGED <<PROGRESS_CALLBACK, t_cb, delivered, misrouted, dropped, raised>>
    /\ UNCHANGED <<pipeVars, dlVars, ppVars, waitVars, fnVars, connVars,
                 rarVars, cntVars, hdlVars>>

\* lines 36-42: the kernel run of caller t raises an event; the trampoline
\* hands it to whatever closure the slot holds now
progress_trampoline(t) ==
    /\ t_pc[t] = "par2_repair_with_progress"
    /\ raised[t] < MaxEvents
    /\ raised' = [raised EXCEPT ![t] = @ + 1]
    /\ delivered' = [delivered EXCEPT ![t] =
                        IF PROGRESS_CALLBACK = t THEN @ + 1 ELSE @]
    /\ misrouted' = (misrouted \/ PROGRESS_CALLBACK \notin {0, t})
    /\ dropped' = (dropped \/ (PROGRESS_CALLBACK = 0 /\ t_cb[t]))
    /\ UNCHANGED <<PROGRESS_CALLBACK, t_pc, t_cb, in_kernel>>
    /\ UNCHANGED <<pipeVars, dlVars, ppVars, waitVars, fnVars, connVars,
                 rarVars, cntVars, hdlVars>>

\* the kernel call returns
KernelReturn(t) ==
    /\ t_pc[t] \in {"par2_repair_with_progress", "par2_repair_sync"}
    /\ in_kernel' = in_kernel \ {t}
    /\ t_pc' = [t_pc EXCEPT ![t] = "clear"]
    /\ UNCHANGED <<PROGRESS_CALLBACK, t_cb, delivered, misrouted, dropped, raised>>
    /\ UNCHANGED <<pipeVars, dlVars, ppVars, waitVars, fnVars, connVars,
                 rarVars, cntVars, hdlVars>>

\* lines 141-144: the slot is cleared and the call returns
ClearCallback(t) ==
    /\ t_pc[t] = "clear"
    /\ PROGRESS_CALLBACK' = 0
    /\ t_pc' = [t_pc EXCEPT ![t] = "returned"]
    /\ UNCHANGED <<t_cb, in_kernel, delivered, misrouted, dropped, raised>>
    /\ UNCHANGED <<pipeVars, dlVars, ppVars, waitVars, fnVars, connVars,
                 rarVars, cntVars, hdlVars>>

Par2Next ==
    \E t \in Callers :
        \/ StoreCallback(t)
        \/ EnterKernel(t)
        \/ progress_trampoline(t)
        \/ KernelReturn(t)
        \/ ClearCallback(t)

InitPar2 == Par2Init /\ PipeOff /\ DlOff /\ PPOff /\ WaitOff /\ FnOff /\ ConnOff
    /\ RarOff /\ CntOff /\ HdlOff

SpecPar2 == InitPar2 /\ [][Par2Next]_vars

\* C18: with several concurrent callers, at most one kernel call is in
\* progress at a time, every event of a call's kernel run reaches that call's
\* own callback (none reaches another call's, none is dropped while the call
\* runs), and the slot is empty once the calls have returned
C18_Par2Serialized ==
    /\ Cardinality(in_kernel) <= 1
    /\ ~misrouted
    /\ ~dropped
    /\ \A t \in Callers : t_cb[t] => delivered[t] = raised[t]
    /\ (\A t \in Callers : t_pc[t] = "returned") => PROGRESS_CALLBACK = 0

(***************************************************************************)
(* Part 7: one operation of AsyncNntpConnection against a server that      *)
(* accepts the connection, sends the lines of c_server one per read, and   *)
(* then falls silent without closing (nntp/connection.rs).  A read under   *)
(* tokio's timeout(..) that finds no line ends in the deadline's error; a  *)
(* read awaited without one stays pending.  Writes succeed.                *)
(***************************************************************************)
MaxLines == 3

ServerLines == {"200", "381", "281", "211", "222", "data", "."}
Operations == {"connect", "download_segment", "is_healthy", "close"}

ConnInit ==
    /\ c_op \in Operations
    /\ c_cfg \in BOOLEAN
    /\ c_server \in SeqsUpTo(ServerLines, MaxLines)
    /\ c_rd = 0
    /\ c_pc = "start"
    /\ c_met = FALSE
    /\ c_ret = "none"

HasLine == c_rd < Len(c_server)
NextLine == c_server[c_rd + 1]

Finish(r) == c_pc' = "done" /\ c_ret' = r

\* read_response().await with no timeout around it, the server being silent
AwaitForever == c_pc' = "pending" /\ c_ret' = c_ret /\ c_met' = TRUE

\* lines 40-47: TcpStream::connect under a 30 s deadline
ConnectTcp ==
    /\ c_op = "connect" /\ c_pc = "start"
    /\ \/ c_pc' = (IF c_cfg THEN "tls" ELSE "greeting") /\ c_ret' = c_ret
       \/ Finish("Timeout")
       \/ Finish("ConnectionFailed")
    /\ UNCHANGED <<c_op, c_cfg, c_server, c_rd, c_met>>
    /\ UNCHANGED <<pipeVars, dlVars, ppVars, waitVars, fnVars, par2Vars,
                 rarVars, cntVars, hdlVars>>

\* lines 72-78: the TLS handshake under a 30 s deadline
ConnectTls ==
    /\ c_op = "connect" /\ c_pc = "tls"
    /\ \/ c_pc' = "greeting" /\ c_ret' = c_ret
       \/ Finish("Timeout")
       \/ Finish("TlsError")
    /\ UNCHANGED <<c_op, c_cfg, c_server, c_rd, c_met>>
    /\ UNCHANGED <<pipeVars, dlVars, ppVars, waitVars, fnVars, par2Vars,
                 rarVars, cntVars, hdlVars>>

\* lines 105-110: initialize reads the greeting
ReadGreeting ==
    /\ c_op = "connect" /\ c_pc = "greeting"
    /\ IF HasLine
       THEN /\ c_rd' = c_rd + 1
            /\ c_met' = c_met
            /\ IF NextLine \in {"200", "201"}
               THEN c_pc' = "user" /\ c_ret' = c_ret
               ELSE Finish("ProtocolError")
       ELSE AwaitForever /\ c_rd' = c_rd
    /\ UNCHANGED <<c_op, c_cfg, c_server>>
    /\ UNCHANGED <<pipeVars, dlVars, ppVars, waitVars, fnVars, par2Vars,
                 rarVars, cntVars, hdlVars>>

\* lines 118-122 and 137-145: AUTHINFO USER and its reply
AuthInfoUser ==
    /\ c_op = "connect" /\ c_pc = "user"
    /\ IF HasLine
       THEN /\ c_rd' = c_rd + 1
            /\ c_met' = c_met
            /\ IF NextLine = "381" THEN c_pc' = "pass" /\ c_ret' = c_ret
               ELSE IF NextLine = "281" THEN Finish("Ok")
               ELSE Finish("AuthFailed")
       ELSE AwaitForever /\ c_rd' = c_rd
    /\ UNCHANGED <<c_op, c_cfg, c_server>>
    /\ UNCHANGED <<pipeVars, dlVars, ppVars, waitVars, fnVars, par2Vars,
                 rarVars, cntVars, hdlVars>>

\* lines 124-136: AUTHINFO PASS and its reply
AuthInfoPass ==
    /\ c_op = "connect" /\ c_pc = "pass"
    /\ IF HasLine
       THEN /\ c_rd' = c_rd + 1
            /\ c_met' = c_met
            /\ IF NextLine = "281" THEN Finish("Ok") ELSE Finish("AuthFailed")
       ELSE AwaitForever /\ c_rd' = c_rd
    /\ UNCHANGED <<c_op, c_cfg, c_server>>
    /\ UNCHANGED <<pipeVars, dlVars, ppVars, waitVars, fnVars, par2Vars,
                 rarVars, cntVars, hdlVars>>

\* lines 151-163: GROUP when the cached group differs (c_cfg: it is cached),
\* its reply read under a 10 s deadline
SegmentGroup ==
    /\ c_op = "download_segment" /\ c_pc = "start"
    /\ IF c_cfg
       THEN c_pc' = "body" /\ UNCHANGED <<c_rd, c_met, c_ret>>
       ELSE IF HasLine
       THEN /\ c_rd' = c_rd + 1
            /\ c_met' = c_met
            /\ IF NextLine = "211" THEN c_pc' = "body" /\ c_ret' = c_ret
               ELSE Finish("GroupNotFound")
       ELSE Finish("Timeout") /\ c_met' = TRUE /\ c_rd' = c_rd
    /\ UNCHANGED <<c_op, c_cfg, c_server>>
    /\ UNCHANGED <<pipeVars, dlVars, ppVars, waitVars, fnVars, par2Vars,
                 rarVars, cntVars, hdlVars>>

\* lines 166-175: BODY, its status line read under a 10 s deadline
SegmentBody ==
    /\ c_op = "download_segment" /\ c_pc = "body"
    /\ IF HasLine
       THEN /\ c_rd' = c_rd + 1
            /\ c_met' = c_met
            /\ IF NextLine = "222" THEN c_pc' = "article" /\ c_ret' = c_ret
               ELSE Finish("ArticleNotFound")
       ELSE Finish("Timeout") /\ c_met' = TRUE /\ c_rd' = c_rd
    /\ UNCHANGED <<c_op, c_cfg, c_server>>
    /\ UNCHANGED <<pipeVars, dlVars, ppVars, waitVars, fnVars, par2Vars,
                 rarVars, cntVars, hdlVars>>

\* lines 178-185 with 195-207: one line of the body, the whole body under
\* one 30 s deadline
SegmentArticleLine ==
    /\ c_op = "download_segment" /\ c_pc = "article"
    /\ IF HasLine
       THEN /\ c_rd' = c_rd + 1
            /\ c_met' = c_met
            /\ IF NextLine = "." THEN Finish("Ok")
               ELSE c_pc' = c_pc /\ c_ret' = c_ret
       ELSE Finish("Timeout") /\ c_met' = TRUE /\ c_rd' = c_rd
    /\ UNCHANGED <<c_op, c_cfg, c_server>>
    /\ UNCHANGED <<pipeVars, dlVars, ppVars, waitVars, fnVars, par2Vars,
                 rarVars, cntVars, hdlVars>>

\* lines 293-301: NOOP, its reply read under a 5 s deadline
is_healthy ==
    /\ c_op = "is_healthy" /\ c_pc = "start"
    /\ IF HasLine
       THEN /\ c_rd' = c_rd + 1
            /\ c_met' = c_met
            /\ Finish(IF NextLine = "200" THEN "true" ELSE "false")
       ELSE Finish("false") /\ c_met' = TRUE /\ c_rd' = c_rd
    /\ UNCHANGED <<c_op, c_cfg, c_server>>
    /\ UNCHANGED <<pipeVars, dlVars, ppVars, waitVars, fnVars, par2Vars,
                 rarVars, cntVars, hdlVars>>

\* lines 393-398: QUIT, its reply read under a 2 s deadline and ignored
close ==
    /\ c_op = "close" /\ c_pc = "start"
    /\ IF HasLine
       THEN c_rd' = c_rd + 1 /\ c_met' = c_met
       ELSE c_rd' = c_rd /\ c_met' = TRUE
    /\ Finish("Ok")
    /\ UNCHANGED <<c_op, c_cfg, c_server>>
    /\ UNCHANGED <<pipeVars, dlVars, ppVars, waitVars, fnVars, par2Vars,
                 rarVars, cntVars, hdlVars>>

ConnNext ==
    \/ ConnectTcp
    \/ ConnectTls
    \/ ReadGreeting
    \/ AuthInfoUser
    \/ AuthInfoPass
    \/ SegmentGroup
    \/ SegmentBody
    \/ SegmentArticleLine
    \/ is_healthy
    \/ close

InitConn == ConnInit /\ PipeOff /\ DlOff /\ PPOff /\ WaitOff /\ FnOff /\ Par2Off
    /\ RarOff /\ CntOff /\ HdlOff

SpecConn == InitConn /\ [][ConnNext]_vars

\* C21: every blocking read has a deadline: against a server that accepts
\* the connection and then sends nothing more, no operation stays pending;
\* connect and download_segment fail with Timeout, is_healthy and close
\* return
C21_EveryReadHasDeadline ==
    /\ c_pc /= "pending"
    /\ (c_pc = "done" /\ c_met /\ c_op \in {"connect", "download_segment"})
           => c_ret = "Timeout"

(***************************************************************************)
(* Part 5.5: patterns::rar::is_extractable_archive (patterns.rs).  A file  *)
(* name is a sequence of pieces of text, written as they stand in the      *)
(* name; the three regular expressions are matched on the pieces.          *)
(***************************************************************************)
MaxPieces == 5

Digits == {"0", "1", "2"}
NamePieces == {"x", ".part", ".PART", ".rar", ".RAR", ".r"} \cup Digits

\* str::to_lowercase of a piece
ToLower(t) ==
    CASE t = ".PART" -> ".part"
      [] t = ".RAR"  -> ".rar"
      [] OTHER       -> t

\* filename.to_lowercase().ends_with(".rar")
EndsWithRar(name) == name /= <<>> /\ ToLower(name[Len(name)]) = ".rar"

\* the start of the run of digits that ends just before position i
RECURSIVE DigitRunStart(_, _)
DigitRunStart(name, i) ==
    IF i >= 2 /\ name[i - 1] \in Digits THEN DigitRunStart(name, i - 1) ELSE i

\* the digits between ".part" and the final ".rar", when the name ends so
PartDigits(name) ==
    LET n == Len(name)
        d == DigitRunStart(name, n)
    IN  IF EndsWithRar(name) /\ d < n /\ d >= 2 /\ ToLower(name[d - 1]) = ".part"
        THEN Some(SubSeq(name, d, n - 1))
        ELSE None

\* (?i)\.part\d+\.rar$
MULTI_PART_REGEX(name) == IsSome(PartDigits(name))

\* faulty variant: (?i)\.part\d*1\.rar$
FIRST_PART_REGEX_any_ending_in_1(name) ==
    /\ IsSome(PartDigits(name))
    /\ LET ds == Unwrap(PartDigits(name)) IN ds[Len(ds)] = "1"

\* (?i)\.part0*1\.rar$
FIRST_PART_REGEX(name) ==
    /\ IsSome(PartDigits(name))
    /\ LET ds == Unwrap(PartDigits(name)) IN
       /\ ds[Len(ds)] = "1"
       /\ \A i \in 1..(Len(ds) - 1) : ds[i] = "0"

\* lines 34-52
is_extractable_archive(filename) ==
    IF ~EndsWithRar(filename) THEN FALSE
    ELSE IF MULTI_PART_REGEX(filename) THEN FIRST_PART_REGEX(filename)
    ELSE TRUE

EntryInit ==
    /\ fn_pc = "in"
    /\ fn_in \in SeqsUpTo(NamePieces, MaxPieces) \ {<<>>}
    /\ fn_out = <<>>

IsExtractable ==
    /\ fn_pc = "in"
    /\ fn_out' = is_extractable_archive(fn_in)
    /\ fn_pc' = "out"
    /\ UNCHANGED fn_in
    /\ UNCHANGED <<pipeVars, dlVars, ppVars, waitVars, par2Vars, connVars,
                 rarVars, cntVars, hdlVars>>

InitEntry == EntryInit /\ PipeOff /\ DlOff /\ PPOff /\ WaitOff /\ Par2Off /\ ConnOff
    /\ RarOff /\ CntOff /\ HdlOff

SpecEntry == InitEntry /\ [][IsExtractable]_vars

\* the number a run of decimal digits denotes
RECURSIVE DigitsValue(_)
DigitsValue(ds) ==
    IF ds = <<>> THEN 0
    ELSE 10 * DigitsValue(SubSeq(ds, 1, Len(ds) - 1))
         + (CASE ds[Len(ds)] = "0" -> 0 [] ds[Len(ds)] = "1" -> 1 [] OTHER -> 2)

\* the name with other digits in its part number
WithPartDigits(name, ds) ==
    LET old == Unwrap(PartDigits(name)) IN
    SubSeq(name, 1, Len(name) - 1 - Len(old)) \o ds \o <<name[Len(name)]>>

\* C22: is_extractable_archive is true exactly for the names ending in .rar
\* (in any case) that have no .partN before the extension or whose part
\* number is 1; so among the parts of a set, numbered with the same count of
\* digits, exactly one is an entry point
C22_EntryPoint ==
    fn_pc = "out" =>
        /\ fn_out <=>
              /\ EndsWithRar(fn_in)
              /\ PartDigits(fn_in) = None
                    \/ DigitsValue(Unwrap(PartDigits(fn_in))) = 1
        /\ IsSome(PartDigits(fn_in)) =>
              Cardinality({ds \in [1..Len(Unwrap(PartDigits(fn_in))) -> Digits] :
                  is_extractable_archive(WithPartDigits(fn_in, ds))}) = 1

C22_Witness ==
    /\ fn_pc = "out"
    /\ fn_in = <<"x", ".PART", "0", "1", ".RAR">>
    /\ fn_out

(***************************************************************************)
(* Part 5.6: the size test of deobfuscate_files (deobfuscate.rs 269-288),  *)
(* applied to every pair of sizes in bytes of the biggest and the second   *)
(* biggest file.                                                           *)
(***************************************************************************)
MaxSize == 12

SizeInit ==
    /\ fn_pc = "in"
    /\ fn_in \in {x \in [biggest_size : 1..MaxSize, second_biggest_size : 1..MaxSize] :
                     x.second_biggest_size <= x.biggest_size}
    /\ fn_out = <<>>

\* fn_out: whether Step 3 is reached (the rename happens)
SizeTest ==
    /\ fn_pc = "in"
    /\ fn_out' = ~NotSignificantlyLarger(fn_in.biggest_size, fn_in.second_biggest_size)
    /\ fn_pc' = "out"
    /\ UNCHANGED fn_in
    /\ UNCHANGED <<pipeVars, dlVars, ppVars, waitVars, par2Vars, connVars,
                 rarVars, cntVars, hdlVars>>

InitSize == SizeInit /\ PipeOff /\ DlOff /\ PPOff /\ WaitOff /\ Par2Off /\ ConnOff
    /\ RarOff /\ CntOff /\ HdlOff

SpecSize == InitSize /\ [][SizeTest]_vars

\* C23: for all sizes b of the biggest and s > 0 of the second biggest file
\* the principal file is renamed only if 2 * b >= 3 * s; with s at 70% of b
\* no rename happens, with s at 60% it does
C23_RenameOnlyIfOneAndAHalf ==
    fn_pc = "out" =>
        /\ fn_out => 2 * fn_in.biggest_size >= 3 * fn_in.second_biggest_size
        /\ 10 * fn_in.second_biggest_size = 7 * fn_in.biggest_size => ~fn_out
        /\ 10 * fn_in.second_biggest_size = 6 * fn_in.biggest_size => fn_out

(***************************************************************************)
(* Part 5.7: the obfuscation heuristic on its own (deobfuscate.rs 13-75).  *)
(* A name is up to MaxStemPieces pieces of ObfTokens: hex-looking text     *)
(* that begins with f7f8f9, the word yEnc, an ordinary word, a word        *)
(* without vowels, a year, a run of punctuation, a dot and the word mkv.   *)
(***************************************************************************)
MaxStemPieces == 5

ObfInit ==
    /\ fn_pc = "in"
    /\ fn_in \in SeqsUpTo(ObfTokens, MaxStemPieces) \ {<<>>}
    /\ fn_out = <<>>

IsProbablyObfuscated ==
    /\ fn_pc = "in"
    /\ fn_out' = is_probably_obfuscated(fn_in)
    /\ fn_pc' = "out"
    /\ UNCHANGED fn_in
    /\ UNCHANGED <<pipeVars, dlVars, ppVars, waitVars, par2Vars, connVars,
                 rarVars, cntVars, hdlVars>>

InitObf == ObfInit /\ PipeOff /\ DlOff /\ PPOff /\ WaitOff /\ Par2Off /\ ConnOff
    /\ RarOff /\ CntOff /\ HdlOff

SpecObf == InitObf /\ [][IsProbablyObfuscated]_vars

\* the name without its extension and what the rules count in it
Bare == file_stem(fn_in)
BareLen == CountChars(Bare, Len(Bare), CharLen)
BareSpecial == CountChars(Bare, Len(Bare), Special)
BareDigits == CountChars(Bare, Len(Bare), Numeric)
BareAlpha == CountChars(Bare, Len(Bare), Alphabetic)
BareHex == CountChars(Bare, Len(Bare), HexDigits)
BareVowels == CountChars(Bare, Len(Bare), Vowels)

Rule1 == BareLen < 5
Rule2 == 2 * BareSpecial > BareLen
Rule3 == 2 * BareDigits > BareLen /\ BareAlpha < 3
Rule4 == 4 * BareHex > 3 * BareLen /\ BareLen > 8
Rule5 ==
    \/ Bare[1] = "F7F8F9"
    \/ "yEnc" \in Range(Bare)
    \/ BareDigits > 10
Rule6 == BareAlpha > 8 /\ BareVowels < BareAlpha \div 4

NumDriveFiles == 3

\* the segment counts of the files, and usenet.connections: limits 2 and 3
DriveSegmentCounts == {1, 2}
DriveConnections == {4, 15}

DriveNzbs ==
    {[f \in 1..NumDriveFiles |-> MkFile(f, [p \in 1..lens[f] |-> p])] :
        lens \in [1..NumDriveFiles -> DriveSegmentCounts]}

DriveInit ==
    /\ nzb \in DriveNzbs
    /\ cfg \in [connections : DriveConnections, pipeline_size : {1},
               force_redownload : {FALSE}]
    /\ disk \in [1..Len(nzb) -> [exists : BOOLEAN, len : 0..3,
                                 content : {<<>>, <<"old">>}]]
    /\ \A f \in 1..Len(nzb) : disk[f] \in {DiskAbsent, DiskComplete(nzb[f])}
    /\ disk0 = disk
    /\ fstate = [f \in 1..Len(nzb) |-> "queued"]
    /\ dresult = [f \in 1..Len(nzb) |-> None]
    /\ npc = "run"
    /\ bstate = <<>>
    /\ attempt = <<>>
    /\ bconn = <<>>
    /\ boutcome = <<>>
    /\ batch_results = <<>>
    /\ idle = <<>>
    /\ cstate = <<>>
    /\ poisoned = <<>>
    /\ position = 0
    /\ acquired = <<>>

\* lines 148-150: the future of a started file returns, Ok or Err
FileReturn(f) ==
    /\ fstate[f] = "running"
    /\ \/ fstate' = [fstate EXCEPT ![f] = "done"]
       \/ fstate' = [fstate EXCEPT ![f] = "error"]
    /\ UNCHANGED <<nzb, cfg, disk0, disk, bstate, attempt, bconn, boutcome,
                   batch_results, dresult, idle, cstate, poisoned, position,
                   npc, acquired>>
    /\ UNCHANGED <<pipeVars, ppVars, extVars>>

DriveNext ==
    \/ \E f \in Files : FileStart(f)
    \/ \E f \in Files : FileReturn(f)
    \/ NzbFinish

InitDrive == DriveInit /\ PipeOff /\ PPOff /\ ExtOff

SpecDrive == InitDrive /\ [][DriveNext]_vars

\* files started and not yet completed; files not yet dispatched
Started == {f \in 1..Len(nzb) : fstate[f] = "running"}
Undispatched == {f \in 1..Len(nzb) : fstate[f] = "queued"}

\* max(2, connections / 5)
FileLimit ==
    IF cfg.connections \div 5 >= 2 THEN cfg.connections \div 5 ELSE 2

\* C27: at every moment at most max(2, connections / 5) files (integer
\* division) are started and not completed; whenever fewer are and
\* undispatched files remain a file can be started; and the file that is
\* started is always one with the most segments among the undispatched.
C27_BoundedFiles ==
    /\ [](Cardinality(Started) <= FileLimit)
    /\ []((npc = "run" /\ Cardinality(Started) < FileLimit
              /\ Undispatched /= {})
            => \E f \in Undispatched : ENABLED FileStart(f))
    /\ [][\A f \in Undispatched :
              fstate'[f] /= "queued" =>
                  /\ Cardinality(Started) < FileLimit
                  /\ \A g \in Undispatched : Len(nzb[g]) <= Len(nzb[f])]_vars

\* C27 witness: as many files are in flight as the limit allows while
\* another file still waits to be dispatched.
C27_Witness ==
    /\ Cardinality(Started) = FileLimit
    /\ Undispatched /= {}

(***************************************************************************)
(* Part 8: RarExtractor::extract_archive (processing/rar.rs 86-294).       *)
(* The first pass lists the archive; the worker (spawn_blocking) reads the *)
(* headers and sends its progress through a bounded channel; the driver    *)
(* loop receives until Done or until the channel is closed.  An archive is *)
(* a sequence of entries: a directory, a file whose path has no normal     *)
(* component, a file below or above the large-file threshold, and a file   *)
(* whose display name is longer than 30 bytes and has a multi-byte         *)
(* character across the byte the name is cut at.                           *)
(***************************************************************************)
\* most entries of an archive
MaxEntries == 2
\* capacity of the channel tried (mpsc::channel(32) in the source)
ChannelCapacity == 2

EntryKinds == {"dir", "unsafe", "small", "large", "uncuttable"}

ExtractInit ==
    /\ archive \in SeqsUpTo(EntryKinds, MaxEntries)
    /\ xw_pc = "off"
    /\ extracted_files = 0
    /\ chan = <<>>
    /\ sent = <<>>
    /\ xd_pc = "begin"
    /\ current_monitor = FALSE
    /\ polled = FALSE
    /\ x_result = FALSE
    /\ x_ret = None
    /\ ended_by = "nothing"

StartFile == [msg |-> "StartFile", success |-> FALSE]
MonitorFile == [msg |-> "MonitorFile", success |-> FALSE]
FileComplete == [msg |-> "FileComplete", success |-> FALSE]
Done(success) == [msg |-> "Done", success |-> success]

\* tx.blocking_send(m): waits while the channel is full
blocking_send(m) ==
    /\ Len(chan) < ChannelCapacity
    /\ chan' = Append(chan, m)
    /\ sent' = Append(sent, m)

\* lines 94-122: the listing pass; its errors and an archive without files
\* give Ok(false), a failing create_dir_all gives Err; else the worker is
\* spawned
ExtractBegin ==
    /\ xd_pc = "begin"
    /\ \/ /\ xd_pc' = "returned"
          /\ x_ret' = Some("Ok(false)")
          /\ xw_pc' = xw_pc
       \/ /\ \E i \in 1..Len(archive) : archive[i] /= "dir"
          /\ \/ /\ xd_pc' = "returned"
                /\ x_ret' = Some("Err")
                /\ xw_pc' = xw_pc
             \/ /\ xd_pc' = "loop"
                /\ xw_pc' = "open"
                /\ x_ret' = x_ret
    /\ UNCHANGED <<archive, extracted_files, chan, sent, current_monitor,
                   polled, x_result, ended_by>>
    /\ UNCHANGED <<pipeVars, dlVars, ppVars, waitVars, fnVars, par2Vars,
                   connVars, cntVars, hdlVars>>

\* lines 151-157: open_for_processing
WorkerOpen ==
    /\ xw_pc = "open"
    /\ \/ xw_pc' = "header" /\ ended_by' = ended_by
       \/ xw_pc' = "done" /\ ended_by' = "open error"
    /\ UNCHANGED <<archive, extracted_files, chan, sent, xd_pc,
                   current_monitor, polled, x_result, x_ret>>
    /\ UNCHANGED <<pipeVars, dlVars, ppVars, waitVars, fnVars, par2Vars,
                   connVars, cntVars, hdlVars>>

\* lines 159-173, 226-227: read_header; a directory is skipped at once
WorkerReadHeader ==
    /\ xw_pc = "header"
    /\ \/ /\ xw_pc' = "done"                                      \* Err(_)
          /\ ended_by' = "header error"
          /\ archive' = archive
       \/ /\ archive = <<>>                                       \* Ok(None)
          /\ xw_pc' = "done"
          /\ ended_by' = "end of archive"
          /\ archive' = archive
       \/ /\ archive /= <<>>
          /\ IF Head(archive) = "dir"
             THEN \/ /\ archive' = Tail(archive)
                     /\ xw_pc' = "header"
                     /\ ended_by' = ended_by
                  \/ /\ archive' = archive
                     /\ xw_pc' = "done"
                     /\ ended_by' = "skip error"
             ELSE /\ archive' = archive
                  /\ xw_pc' = "start"
                  /\ ended_by' = ended_by
    /\ UNCHANGED <<extracted_files, chan, sent, xd_pc, current_monitor,
                   polled, x_result, x_ret>>
    /\ UNCHANGED <<pipeVars, dlVars, ppVars, waitVars, fnVars, par2Vars,
                   connVars, cntVars, hdlVars>>

\* lines 175-202: the display name is cut (a panic when the cut is not on
\* a character boundary: the worker unwinds and drops tx), StartFile is
\* sent, an entry without a normal path component is skipped
WorkerStartFile ==
    /\ xw_pc = "start"
    /\ IF Head(archive) = "uncuttable"
       THEN /\ xw_pc' = "panicked"
            /\ ended_by' = "panic"
            /\ UNCHANGED <<archive, chan, sent>>
       ELSE /\ blocking_send(StartFile)
            /\ IF Head(archive) = "unsafe"
               THEN \/ /\ archive' = Tail(archive)
                       /\ xw_pc' = "header"
                       /\ ended_by' = ended_by
                    \/ /\ archive' = archive
                       /\ xw_pc' = "done"
                       /\ ended_by' = "skip error"
               ELSE /\ archive' = archive
                    /\ ended_by' = ended_by
                    /\ xw_pc' = IF Head(archive) = "large"
                                THEN "monitor" ELSE "extract"
    /\ UNCHANGED <<extracted_files, xd_pc, current_monitor, polled,
                   x_result, x_ret>>
    /\ UNCHANGED <<pipeVars, dlVars, ppVars, waitVars, fnVars, par2Vars,
                   connVars, cntVars, hdlVars>>

\* lines 204-214
WorkerMonitorFile ==
    /\ xw_pc = "monitor"
    /\ blocking_send(MonitorFile)
    /\ xw_pc' = "extract"
    /\ UNCHANGED <<archive, extracted_files, xd_pc, current_monitor, polled,
                   x_result, x_ret, ended_by>>
    /\ UNCHANGED <<pipeVars, dlVars, ppVars, waitVars, fnVars, par2Vars,
                   connVars, cntVars, hdlVars>>

\* lines 216-225: extract_to
WorkerExtract ==
    /\ xw_pc = "extract"
    /\ \/ /\ archive' = Tail(archive)
          /\ extracted_files' = extracted_files + 1
          /\ xw_pc' = "complete"
          /\ ended_by' = ended_by
       \/ /\ xw_pc' = "done"
          /\ ended_by' = "extraction error"
          /\ UNCHANGED <<archive, extracted_files>>
    /\ UNCHANGED <<chan, sent, xd_pc, current_monitor, polled, x_result,
                   x_ret>>
    /\ UNCHANGED <<pipeVars, dlVars, ppVars, waitVars, fnVars, par2Vars,
                   connVars, cntVars, hdlVars>>

\* lines 220-222
WorkerFileComplete ==
    /\ xw_pc = "complete"
    /\ blocking_send(FileComplete)
    /\ xw_pc' = "header"
    /\ UNCHANGED <<archive, extracted_files, xd_pc, current_monitor, polled,
                   x_result, x_ret, ended_by>>
    /\ UNCHANGED <<pipeVars, dlVars, ppVars, waitVars, fnVars, par2Vars,
                   connVars, cntVars, hdlVars>>

\* faulty variant: the worker returns without sending Done
WorkerDone_without_message ==
    /\ xw_pc = "done"
    /\ xw_pc' = "finished"
    /\ UNCHANGED <<archive, extracted_files, chan, sent, xd_pc,
                   current_monitor, polled, x_result, x_ret, ended_by>>
    /\ UNCHANGED <<pipeVars, dlVars, ppVars, waitVars, fnVars, par2Vars,
                   connVars, cntVars, hdlVars>>

\* lines 154 and 231-233: Done, and the worker returns
WorkerDone ==
    /\ xw_pc = "done"
    /\ blocking_send(Done(extracted_files > 0))
    /\ xw_pc' = "finished"
    /\ UNCHANGED <<archive, extracted_files, xd_pc, current_monitor, polled,
                   x_result, x_ret, ended_by>>
    /\ UNCHANGED <<pipeVars, dlVars, ppVars, waitVars, fnVars, par2Vars,
                   connVars, cntVars, hdlVars>>

\* lines 242-257 / 266-284: rx.recv() yields the oldest message
DriverRecv ==
    /\ xd_pc = "loop"
    /\ chan /= <<>>
    /\ chan' = Tail(chan)
    /\ LET m == Head(chan) IN
       CASE m.msg = "StartFile" ->
              UNCHANGED <<current_monitor, polled, x_result, xd_pc>>
         [] m.msg = "FileComplete" ->
              /\ current_monitor' = FALSE
              /\ polled' = FALSE
              /\ UNCHANGED <<x_result, xd_pc>>
         [] m.msg = "MonitorFile" ->
              /\ current_monitor' = TRUE
              /\ UNCHANGED <<polled, x_result, xd_pc>>
         [] OTHER ->
              /\ x_result' = m.success
              /\ xd_pc' = "join"
              /\ UNCHANGED <<current_monitor, polled>>
    /\ UNCHANGED <<archive, xw_pc, extracted_files, sent, x_ret, ended_by>>
    /\ UNCHANGED <<pipeVars, dlVars, ppVars, waitVars, fnVars, par2Vars,
                   connVars, cntVars, hdlVars>>

\* lines 258 / 282: rx.recv() yields None: the channel is empty and the
\* worker has dropped tx
DriverRecvNone ==
    /\ xd_pc = "loop"
    /\ chan = <<>>
    /\ xw_pc \in {"finished", "panicked"}
    /\ xd_pc' = "join"
    /\ UNCHANGED <<archive, xw_pc, extracted_files, chan, sent,
                   current_monitor, polled, x_result, x_ret, ended_by>>
    /\ UNCHANGED <<pipeVars, dlVars, ppVars, waitVars, fnVars, par2Vars,
                   connVars, cntVars, hdlVars>>

\* lines 260-264: the 50 ms sleep wins the select!; the size of the watched
\* file is displayed
DriverTick ==
    /\ xd_pc = "loop"
    /\ current_monitor
    /\ polled' = TRUE
    /\ UNCHANGED <<archive, xw_pc, extracted_files, chan, sent, xd_pc,
                   current_monitor, x_result, x_ret, ended_by>>
    /\ UNCHANGED <<pipeVars, dlVars, ppVars, waitVars, fnVars, par2Vars,
                   connVars, cntVars, hdlVars>>

\* lines 288-291: extraction_handle.await, then Ok(result)
DriverJoin ==
    /\ xd_pc = "join"
    /\ xw_pc \in {"finished", "panicked"}
    /\ xd_pc' = "returned"
    /\ x_ret' = Some(IF x_result THEN "Ok(true)" ELSE "Ok(false)")
    /\ UNCHANGED <<archive, xw_pc, extracted_files, chan, sent,
                   current_monitor, polled, x_result, ended_by>>
    /\ UNCHANGED <<pipeVars, dlVars, ppVars, waitVars, fnVars, par2Vars,
                   connVars, cntVars, hdlVars>>

WorkerNext ==
    \/ WorkerOpen
    \/ WorkerReadHeader
    \/ WorkerStartFile
    \/ WorkerMonitorFile
    \/ WorkerExtract
    \/ WorkerFileComplete
    \/ WorkerDone

DriverNext ==
    \/ ExtractBegin
    \/ DriverRecv
    \/ DriverRecvNone
    \/ DriverJoin

ExtractNext == WorkerNext \/ DriverNext \/ DriverTick

InitExtract ==
    ExtractInit /\ PipeOff /\ DlOff /\ PPOff /\ WaitOff /\ FnOff /\ Par2Off
        /\ ConnOff /\ CntOff /\ HdlOff

\* the blocking thread runs whenever it is not waiting for room in the
\* channel, and the runtime polls the driver whenever a message, the close
\* of the channel or the end of the worker has woken it
SpecExtract ==
    InitExtract /\ [][ExtractNext]_vars
        /\ WF_vars(WorkerNext) /\ WF_vars(DriverNext)

(***************************************************************************)
(* Claims about extract_archive (SpecExtract).                             *)
(***************************************************************************)

\* the worker left its loop by one of its own exits (it did not panic)
WorkerReturned == xw_pc = "finished"

C35_HeaderError ==
    (xd_pc = "returned" /\ ended_by = "header error") =>
        x_ret = Some(IF extracted_files > 0 THEN "Ok(true)" ELSE "Err")

(***************************************************************************)
(* Part 5.8: the deletion of extracted archive sets                        *)
(* (rar.rs 30-83 and 302-321, patterns.rs 54-75).  The directory holds up  *)
(* to MaxDirFiles files out of the volumes of two archive sets, x and xx,  *)
(* and a file that is no archive; names are sequences of the pieces of     *)
(* Part 5.5.  Whether an extraction reports success is open, except that   *)
(* an archive that is no longer there cannot be opened.                    *)
(***************************************************************************)
MaxDirFiles == 3

ArchiveSetNames ==
    {<<"x", ".rar">>, <<"x", ".part", "1", ".rar">>,
     <<"x", ".part", "2", ".rar">>, <<"x", ".r", "0", "0">>,
     <<"x", "x", ".RAR">>, <<"x", "x", ".part", "1", ".rar">>,
     <<"x", "x", ".part", "2", ".rar">>, <<"x", "x", ".r", "0", "1">>,
     <<"x">>}

\* (?i)\.r\d{2}$
OLD_STYLE_SPLIT_REGEX(name) ==
    /\ Len(name) >= 3
    /\ name[Len(name) - 2] = ".r"
    /\ name[Len(name) - 1] \in Digits
    /\ name[Len(name)] \in Digits

\* patterns::rar::is_rar_related on a name in pieces
IsRarRelated(name) == EndsWithRar(name) \/ OLD_STYLE_SPLIT_REGEX(name)

\* (?i)(.*?)(?:\.part\d+|\.r\d{2})?\.rar$, group 1; None without a match
extract_base_name(name) ==
    IF ~EndsWithRar(name) THEN None
    ELSE LET n == Len(name)
             d == DigitRunStart(name, n)
         IN  IF d < n /\ d >= 2 /\ ToLower(name[d - 1]) = ".part"
             THEN Some(SubSeq(name, 1, d - 2))
             ELSE IF n >= 4 /\ ToLower(name[n - 3]) = ".r"
                      /\ name[n - 2] \in Digits /\ name[n - 1] \in Digits
             THEN Some(SubSeq(name, 1, n - 4))
             ELSE Some(SubSeq(name, 1, n - 1))

LowerName(name) == [i \in 1..Len(name) |-> ToLower(name[i])]

\* str::starts_with; the base names here consist of one-letter pieces, so
\* a prefix in pieces is a prefix in characters and conversely
starts_with(name, prefix) ==
    /\ Len(prefix) <= Len(name)
    /\ SubSeq(name, 1, Len(prefix)) = prefix

\* patterns.rs 69-75
is_same_archive(base_name, other_filename) ==
    /\ starts_with(LowerName(other_filename), LowerName(base_name))
    /\ IsRarRelated(other_filename)

\* rar.rs 302-321: the directory after delete_rar_parts(rar_path, dir)
delete_rar_parts(rar_path, dir) ==
    LET base_name == IF IsSome(extract_base_name(rar_path))
                     THEN Unwrap(extract_base_name(rar_path))
                     ELSE rar_path
    IN  {f \in dir : ~is_same_archive(base_name, f)}

DeleteInit ==
    /\ fn_pc = "in"
    /\ fn_in \in [dir : {d \in SUBSET ArchiveSetNames :
                            Cardinality(d) <= MaxDirFiles},
                  delete_rar_after_extract : BOOLEAN]
    /\ fn_out = <<>>

\* rar.rs 37-46: read_dir (in whatever order the directory gives) and the
\* filter is_rar_archive
ExtractArchivesBegin ==
    /\ fn_pc = "in"
    /\ LET eps == {f \in fn_in.dir : is_extractable_archive(f)} IN
       \E order \in [1..Cardinality(eps) -> eps] :
          /\ \A i, j \in 1..Cardinality(eps) : i /= j => order[i] /= order[j]
          /\ fn_out' = [rar_files |-> order, dir |-> fn_in.dir,
                        extracted |-> {}, err |-> FALSE]
    /\ fn_pc' = "loop"
    /\ UNCHANGED fn_in
    /\ UNCHANGED <<pipeVars, dlVars, ppVars, waitVars, par2Vars, connVars,
                   rarVars, cntVars, hdlVars>>

\* rar.rs 54-72: one round of the loop: extract_archive fails with an
\* error, or reports success or not; after success the parts are deleted
ExtractArchivesStep ==
    /\ fn_pc = "loop"
    /\ fn_out.rar_files /= <<>>
    /\ LET rar_path == Head(fn_out.rar_files) IN
       \/ /\ fn_out' = [fn_out EXCEPT !.err = TRUE]
          /\ fn_pc' = "out"
       \/ /\ fn_out' = [fn_out EXCEPT !.rar_files = Tail(@)]
          /\ fn_pc' = fn_pc
       \/ /\ rar_path \in fn_out.dir
          /\ fn_out' = [fn_out EXCEPT
                           !.rar_files = Tail(@),
                           !.extracted = @ \cup {rar_path},
                           !.dir = IF fn_in.delete_rar_after_extract
                                   THEN delete_rar_parts(rar_path, @) ELSE @]
          /\ fn_pc' = fn_pc
    /\ UNCHANGED fn_in
    /\ UNCHANGED <<pipeVars, dlVars, ppVars, waitVars, par2Vars, connVars,
                   rarVars, cntVars, hdlVars>>

\* rar.rs 75-82
ExtractArchivesEnd ==
    /\ fn_pc = "loop"
    /\ fn_out.rar_files = <<>>
    /\ fn_pc' = "out"
    /\ UNCHANGED <<fn_in, fn_out>>
    /\ UNCHANGED <<pipeVars, dlVars, ppVars, waitVars, par2Vars, connVars,
                   rarVars, cntVars, hdlVars>>

DeleteNext ==
    \/ ExtractArchivesBegin
    \/ ExtractArchivesStep
    \/ ExtractArchivesEnd

InitDelete ==
    DeleteInit /\ PipeOff /\ DlOff /\ PPOff /\ WaitOff /\ Par2Off /\ ConnOff
        /\ RarOff /\ CntOff /\ HdlOff

SpecDelete == InitDelete /\ [][DeleteNext]_vars

\* the archive set a volume belongs to: its name up to the first dot
RECURSIVE SetStem(_)
SetStem(name) ==
    IF name = <<>> \/ Head(name) /= "x" THEN <<>>
    ELSE <<"x">> \o SetStem(Tail(name))

\* a *.rar or *.rNN file
IsVolume(name) ==
    \/ ToLower(name[Len(name)]) = ".rar"
    \/ Len(name) >= 3 /\ name[Len(name) - 2] = ".r"

\* C36: with delete_rar_after_extract set, the files extract_archives has
\* deleted are exactly the *.rar / *.rNN files whose stem is that of an
\* entry point whose extraction reported success; no volume of another
\* set is deleted, and without the option or without success nothing is.
C36_DeletesOnlyOwnSet ==
    fn_pc \in {"loop", "out"} =>
        fn_in.dir \ fn_out.dir =
            {f \in fn_in.dir :
                /\ fn_in.delete_rar_after_extract
                /\ IsVolume(f)
                /\ \E E \in fn_out.extracted : SetStem(f) = SetStem(E)}

(***************************************************************************)
(* Part 2.2: the file counter of download_files_concurrent_with_config     *)
(* (downloader.rs 131-169).  Each future ends with fetch_add and the       *)
(* conditional set_message, with no await between the two.  The futures    *)
(* are driven by buffer_unordered inside the one task that awaits          *)
(* collect(), so a future that has taken its count runs on to its return   *)
(* before another future is polled.  pending holds the futures that have   *)
(* not returned, taken the counts in the order of the fetch_adds, and      *)
(* messages the counts shown, in the order of the set_message calls.       *)
(***************************************************************************)
MaxTotalFiles == 6

\* the futures between fetch_add and their return
MidPoll == {f \in pending : \E i \in 1..Len(taken) : taken[i][1] = f}

poll_interleaved == TRUE

\* downloader.rs 163-166: one task polls the futures, one at a time
poll_alone == MidPoll = {}

CountOf(f) == (CHOOSE i \in 1..Len(taken) : taken[i][1] = f)

CountInit ==
    /\ total_files \in 0..MaxTotalFiles
    /\ pending = 1..total_files
    /\ completed_count = 0
    /\ taken = <<>>
    /\ messages = <<>>

\* downloader.rs 150-154: the download is over, whatever its result, and
\* the future takes its count
FetchAdd(f) ==
    /\ f \in pending \ MidPoll
    /\ poll_alone
    /\ completed_count' = completed_count + 1
    /\ taken' = Append(taken, <<f, completed_count + 1>>)
    /\ UNCHANGED <<total_files, pending, messages>>
    /\ UNCHANGED <<pipeVars, dlVars, ppVars, waitVars, fnVars, par2Vars,
                   connVars, rarVars, hdlVars>>

\* downloader.rs 155-159
SetMessage(f) ==
    /\ f \in MidPoll
    /\ LET count == taken[CountOf(f)][2] IN
       messages' = IF count % 5 = 0 \/ count = total_files
                   THEN Append(messages, count)
                   ELSE messages
    /\ pending' = pending \ {f}
    /\ UNCHANGED <<total_files, completed_count, taken>>
    /\ UNCHANGED <<pipeVars, dlVars, ppVars, waitVars, fnVars, par2Vars,
                   connVars, rarVars, hdlVars>>

CountNext == \E f \in 1..MaxTotalFiles : FetchAdd(f) \/ SetMessage(f)

InitCount ==
    CountInit /\ PipeOff /\ DlOff /\ PPOff /\ WaitOff /\ FnOff /\ Par2Off
        /\ ConnOff /\ RarOff /\ HdlOff

SpecCount == InitCount /\ [][CountNext]_vars

\* C37: in every order of completion the counts taken are 1, 2, ... each
\* once, the counter ends at total_files, the message is set exactly at
\* the multiples of 5 and at total_files, and the count shown never goes
\* down.
C37_FileCounter ==
    /\ \A i \in 1..Len(taken) : taken[i][2] = i
    /\ completed_count = Len(taken)
    /\ \A i, j \in 1..Len(taken) : i /= j => taken[i][1] /= taken[j][1]
    /\ \A i \in 1..Len(messages) : \A j \in 1..Len(messages) :
           i < j => messages[i] < messages[j]
    /\ pending = {} =>
           /\ completed_count = total_files
           /\ {messages[i] : i \in 1..Len(messages)} =
                  {c \in 1..total_files : c % 5 = 0 \/ c = total_files}

C37_Witness ==
    /\ pending = {}
    /\ total_files = 6
    /\ messages = <<5, 6>>
    /\ taken[1][1] /= 1

(***************************************************************************)
(* Part 5.9: the rename of Step 1 with the whole search of                 *)
(* get_unique_filename (deobfuscate.rs 103-136 and 199-229).  A path of    *)
(* the directory is a stem, the number n of a suffix "_n" (0: none) and    *)
(* an extension.  The directory holds the file and the first `taken` of    *)
(* the names the search tries: the wanted target, then "_1", "_2", ...     *)
(***************************************************************************)
UNIQUE_LIMIT == 999

TakenCounts == {0, 1, 2, UNIQUE_LIMIT, UNIQUE_LIMIT + 1}

PathOf(name) ==
    [stem |-> file_stem(name), n |-> 0,
     ext |-> IF IsSome(extension(name)) THEN Unwrap(extension(name))
             ELSE <<>>]

\* lines 103-125, for a path without suffix: the path itself when it is
\* free, else the first free one of stem_1 .. stem_999, else the path
get_unique_filename_in(path, exists) ==
    IF path \notin exists THEN path
    ELSE LET free == {i \in 1..UNIQUE_LIMIT :
                         [path EXCEPT !.n = i] \notin exists}
         IN  IF free /= {}
             THEN [path EXCEPT !.n = CHOOSE i \in free :
                                         \A j \in free : i <= j]
             ELSE path

RenameInit ==
    /\ fn_pc = "in"
    /\ fn_in \in [file : FileNames, magic : BOOLEAN, taken : TakenCounts]
    /\ fn_out = <<>>

\* what read_dir finds when Step 1 reaches the file
ExistingPaths(in) ==
    LET wanted == PathOf(with_extension(in.file, <<"mkv">>))
    IN  {PathOf(in.file)}
            \cup {[wanted EXCEPT !.n = i] : i \in 0..(in.taken - 1)}

\* lines 201-226, for one file of the list
FixExtension ==
    /\ fn_pc = "in"
    /\ LET f == [name |-> fn_in.file, magic |-> fn_in.magic]
           exists == ExistingPaths(fn_in)
       IN  IF has_popular_extension(f.name)
               \/ ~IsSome(what_is_most_likely_extension(f))
           THEN fn_out' = [renamed |-> FALSE]
           ELSE LET new_ext == Unwrap(what_is_most_likely_extension(f))
                    new_path == get_unique_filename_in(
                        PathOf(with_extension(f.name, Tail(new_ext))), exists)
                IN  fn_out' = [renamed |-> TRUE, to |-> new_path,
                               overwrites |-> new_path \in exists]
    /\ fn_pc' = "out"
    /\ UNCHANGED fn_in
    /\ UNCHANGED <<pipeVars, dlVars, ppVars, waitVars, par2Vars, connVars,
                   rarVars, cntVars, hdlVars>>

InitRename ==
    RenameInit /\ PipeOff /\ DlOff /\ PPOff /\ WaitOff /\ Par2Off /\ ConnOff
        /\ RarOff /\ CntOff /\ HdlOff

SpecRename == InitRename /\ [][FixExtension]_vars

\* C38: the rename of the extension repair goes to a path that does not
\* exist when it is made, also when the wanted name and all of its 999
\* suffixed names are taken, and the new name is the whole original name
\* with the detected extension appended, with or without a suffix _n.
C38_RenameToFreshName ==
    (fn_pc = "out" /\ fn_out.renamed) =>
        /\ ~fn_out.overwrites
        /\ fn_out.to.stem = fn_in.file
        /\ fn_out.to.ext = <<"mkv">>

(***************************************************************************)
(* Part 5.10: the DVD/Bluray test of deobfuscate_files                     *)
(* (deobfuscate.rs 164-197, file_extension.rs 27).  The directory is given *)
(* by its own path, a sequence of components, by the names of the folders  *)
(* in it and by its files.                                                 *)
(***************************************************************************)
MaxDepth == 2

IGNORED_MOVIE_FOLDERS == {"VIDEO_TS", "AUDIO_TS", "BDMV", "CERTIFICATE"}

\* the components a path is made of; the last is one name that holds a
\* backslash
PathComponents == {"dl", "VIDEO_TS", "x\\BDMV"}

FolderNames == {"VIDEO_TS", "CERTIFICATE", "sub"}

\* the files of the directory: none, or one file without recognised content
FileLists ==
    {<<>>} \cup {<<f>> : f \in {g \in DirFiles : g.size = 3 /\ ~g.magic}}

\* lines 182-184 on the path joined with '/': "<ignored>/" is in it when a
\* component before the last ends with the name (the components here end
\* with it only when they are it), "\<ignored>" when any component holds it
InIgnoredFolder(parent) ==
    \E ignored \in IGNORED_MOVIE_FOLDERS :
        \/ \E i \in 1..(Len(parent) - 1) : parent[i] = ignored
        \/ \E i \in 1..Len(parent) : parent[i] = "x\\" \o ignored

\* lines 160-197 and the count of lines 307 and 350
files_renamed(directory, folders, files, useful_name) ==
    LET file_list == files    \* line 167: path.is_file() drops the folders
    IN  IF file_list = <<>> THEN 0
        ELSE IF InIgnoredFolder(directory)   \* file.parent() is directory
        THEN 0
        ELSE Len(deobfuscate_files(file_list, useful_name))

MovieInit ==
    /\ fn_pc = "in"
    /\ fn_in \in [directory : SeqsUpTo(PathComponents, MaxDepth) \ {<<>>},
                  folders : SUBSET FolderNames,
                  files : FileLists,
                  useful_name : {<<"mkv">>}]
    /\ fn_out = <<>>

DeobfuscateAt ==
    /\ fn_pc = "in"
    /\ fn_out' = files_renamed(fn_in.directory, fn_in.folders, fn_in.files,
                               fn_in.useful_name)
    /\ fn_pc' = "out"
    /\ UNCHANGED fn_in
    /\ UNCHANGED <<pipeVars, dlVars, ppVars, waitVars, par2Vars, connVars,
                   rarVars, cntVars, hdlVars>>

InitMovie ==
    MovieInit /\ PipeOff /\ DlOff /\ PPOff /\ WaitOff /\ Par2Off /\ ConnOff
        /\ RarOff /\ CntOff /\ HdlOff

SpecMovie == InitMovie /\ [][DeobfuscateAt]_vars

\* C39: with a folder named VIDEO_TS, AUDIO_TS, BDMV or CERTIFICATE in the
\* directory no file is renamed; without one, the directory's own path
\* does not matter: the files are renamed as they are anywhere else.
C39_MovieFolderSkips ==
    fn_pc = "out" =>
        IF fn_in.folders \cap IGNORED_MOVIE_FOLDERS /= {}
        THEN fn_out = 0
        ELSE fn_out = IF fn_in.files = <<>> THEN 0
                      ELSE Len(deobfuscate_files(fn_in.files,
                                                 fn_in.useful_name))

(***************************************************************************)
(* Part 2.3: a batch future and its pool handle (downloader.rs 260-337).   *)
(* The pool is described by what the specification asks of it: it hands    *)
(* out at most its size, a get_connection future that is dropped gives     *)
(* back what it had reserved, and a handle that goes out of scope puts its *)
(* connection back.  A batch is at "top" (the loop condition), in "sleep"  *)
(* (backoff), in "wait" (get_connection pending, nothing reserved), in     *)
(* "create" (get_connection pending with a connection reserved for it),    *)
(* in "conv" (download_segments_pipelined) or "done".                      *)
(***************************************************************************)
NumHandleBatches == 2
MaxHandleAttempts == 2
HandlePoolSizes == {1, 2}

HandleBatches == 1..NumHandleBatches

\* what the call of line 312 can come to: all articles, some of them
\* missing, or an error
ConverseOutcomes == {"ok", "per-segment failures", "err"}

released_on_success_only(out) == out = "ok"

\* lines 313-337: `conn` lives to the end of the block in both arms of the
\* match, and is dropped there
released_at_end(out) == out \in ConverseOutcomes

HandleInit ==
    /\ h_pc = [b \in HandleBatches |-> "top"]
    /\ h_attempt = [b \in HandleBatches |-> 0]
    /\ h_conn = [b \in HandleBatches |-> FALSE]
    /\ h_free \in HandlePoolSizes
    /\ h_out = [b \in HandleBatches |-> "none"]

HandleFrame ==
    UNCHANGED <<pipeVars, dlVars, ppVars, waitVars, fnVars, par2Vars,
                connVars, rarVars, cntVars>>

\* lines 267-281: the loop condition; with a failed attempt behind it the
\* batch sleeps first
LoopTop(b) ==
    /\ h_pc[b] = "top"
    /\ h_attempt[b] < MaxHandleAttempts
    /\ h_pc' = [h_pc EXCEPT ![b] = IF h_attempt[b] > 0 THEN "sleep" ELSE "wait"]
    /\ UNCHANGED <<h_attempt, h_conn, h_free, h_out>>
    /\ HandleFrame

\* lines 267 and 294-309: connection_wait_timeout has run out
GiveUp(b) ==
    /\ h_pc[b] = "top"
    /\ h_attempt[b] > 0
    /\ h_pc' = [h_pc EXCEPT ![b] = "done"]
    /\ h_out' = [h_out EXCEPT ![b] = "starved"]
    /\ UNCHANGED <<h_attempt, h_conn, h_free>>
    /\ HandleFrame

\* lines 269-272
BackoffOver(b) ==
    /\ h_pc[b] = "sleep"
    /\ h_pc' = [h_pc EXCEPT ![b] = "wait"]
    /\ UNCHANGED <<h_attempt, h_conn, h_free, h_out>>
    /\ HandleFrame

\* inside get_connection: a connection is set aside for the caller
PoolReserve(b) ==
    /\ h_pc[b] = "wait"
    /\ h_free > 0
    /\ h_free' = h_free - 1
    /\ h_pc' = [h_pc EXCEPT ![b] = "create"]
    /\ UNCHANGED <<h_attempt, h_conn, h_out>>
    /\ HandleFrame

\* lines 282-286: Ok(Ok(c))
GotConnection(b) ==
    /\ h_pc[b] = "create"
    /\ h_conn' = [h_conn EXCEPT ![b] = TRUE]
    /\ h_pc' = [h_pc EXCEPT ![b] = "conv"]
    /\ UNCHANGED <<h_attempt, h_free, h_out>>
    /\ HandleFrame

\* lines 287-290: Ok(Err(_)), get_connection failed, or Err(_), the 60 s
\* ran out and the get_connection future is dropped where it stands
AttemptFailed(b) ==
    /\ h_pc[b] \in {"wait", "create"}
    /\ h_free' = h_free + (IF h_pc[b] = "create" THEN 1 ELSE 0)
    /\ h_attempt' = [h_attempt EXCEPT ![b] = @ + 1]
    /\ h_pc' = [h_pc EXCEPT ![b] = "top"]
    /\ UNCHANGED <<h_conn, h_out>>
    /\ HandleFrame

\* lines 312-337
Converse(b) ==
    /\ h_pc[b] = "conv"
    /\ \E out \in ConverseOutcomes :
          /\ h_out' = [h_out EXCEPT ![b] = out]
          /\ h_conn' = [h_conn EXCEPT ![b] = ~released_at_end(out)]
          /\ h_free' = h_free + (IF released_at_end(out) THEN 1 ELSE 0)
    /\ h_pc' = [h_pc EXCEPT ![b] = "done"]
    /\ UNCHANGED h_attempt
    /\ HandleFrame

HandleNext ==
    \E b \in HandleBatches :
        \/ LoopTop(b)
        \/ GiveUp(b)
        \/ BackoffOver(b)
        \/ PoolReserve(b)
        \/ GotConnection(b)
        \/ AttemptFailed(b)
        \/ Converse(b)

InitHandle ==
    HandleInit /\ PipeOff /\ DlOff /\ PPOff /\ WaitOff /\ FnOff /\ Par2Off
        /\ ConnOff /\ RarOff /\ CntOff

SpecHandle == InitHandle /\ [][HandleNext]_vars

\* the connections that are out of the pool's hands
OutOfPool ==
    Cardinality({b \in HandleBatches : h_pc[b] \in {"create", "conv"}})

\* C40: a batch that has completed holds no handle, however it ended; a
\* batch holds a handle only during its pipelined call, so none while it
\* sleeps in backoff or stands at the loop after a failed or abandoned
\* attempt; and the pool always has what no batch is using, so an abandoned
\* attempt takes nothing away for good.
C40_HandlesReleased ==
    /\ [](\A b \in HandleBatches :
            /\ h_pc[b] = "done" => ~h_conn[b]
            /\ h_pc[b] \in {"top", "sleep", "wait", "create"} => ~h_conn[b])
    /\ [][(h_free' + OutOfPool') = (h_free + OutOfPool)]_vars
    /\ []((\A b \in HandleBatches : h_pc[b] \in {"top", "sleep", "wait", "done"})
            => h_free \in HandlePoolSizes /\ OutOfPool = 0)

\* both batches done after one had an attempt abandoned with a connection
\* reserved, one ended on an error and the other starved or had failures
C40_Witness ==
    /\ \A b \in HandleBatches : h_pc[b] = "done"
    /\ h_out[1] = "err"
    /\ h_attempt[1] > 0
    /\ h_out[2] \in {"starved", "per-segment failures"}
====
